---------------------------- MODULE Spec2Model ----------------------------
(***************************************************************************)
(* The superannuation projection engine of FinApp:                         *)
(*   projectSuperannuationBalance  (accumulation, utils/formatting.ts)     *)
(*   projectPostRetirement         (drawdown,     utils/formatting.ts)     *)
(* and the component that calls it, SuperannuationSection; and the         *)
(* transaction list and the budget forecast of BudgetingSection.           *)
(*                                                                         *)
(* JavaScript numbers are modelled as exact rationals <<n, d>> (d > 0, in  *)
(* lowest terms), i.e. the arithmetic of the code without rounding; NaN    *)
(* and the infinities are outside the model.  An optional field that the   *)
(* code leaves `undefined` holds the empty tuple.  Ages, loop counters and *)
(* calendar years are integers.                                            *)
(***************************************************************************)
EXTENDS Integers, Sequences, FiniteSets

VARIABLES
    clock,    \* the calendar year new Date().getFullYear() returns now
    call,     \* the invocation under observation: function name and arguments
    now,      \* the clock readings that invocation saw
    result,   \* the sequence it returned
    rerun,    \* <<>>, or <<[now, result]>> of a second invocation, same arguments
    \* SuperannuationSection (components/SuperannuationSection.tsx):
    \* (the state is prefixed with "section": the projectors' parameters
    \* already bear the names inputs, postRetirementInputs and projections)
    sectionInputs,                     \* inputs
    sectionPostRetirementInputs,       \* postRetirementInputs
    sectionProjections,                \* projections, initially []
    sectionPostRetirementProjections,  \* postRetirementProjections, initially []
    mounted,                           \* whether the effect of lines 52-55 has run
    \* BudgetingSection (components/BudgetingSection.tsx):
    transactions,                      \* the stored transactions, in order
    formState,                         \* the fields of the transaction form
    showForm,                          \* whether the form is shown
    editingTransaction,                \* <<>> (null), or <<t>>: the transaction being edited
    expandedMonths,                    \* month key -> boolean, for the keys set so far
    forecastInputs,                    \* the inputs of the budget forecast
    projectedBudgetData,               \* <<>> (null), or <<records>>
    annualizedIncomeFromTransactions,  \* <<>> (null), or a number
    annualizedExpensesFromTransactions,\* <<>> (null), or a number
    lastSubmit                         \* <<>>, or what the handleSubmit that just ran found

sectionVars == <<sectionInputs, sectionPostRetirementInputs, sectionProjections, sectionPostRetirementProjections, mounted>>

budgetVars == <<transactions, formState, showForm, editingTransaction, expandedMonths, forecastInputs, projectedBudgetData, annualizedIncomeFromTransactions, annualizedExpensesFromTransactions, lastSubmit>>

vars == <<clock, call, now, result, rerun, sectionVars, budgetVars>>

----------------------------------------------------------------------------
(* Number arithmetic.                                                       *)

Abs(n) == IF n < 0 THEN -n ELSE n

RECURSIVE GCD(_, _)
GCD(a, b) == IF b = 0 THEN a ELSE GCD(b, a % b)

\* n/d in lowest terms with a positive denominator (d # 0).
Norm(n, d) ==
    LET g == GCD(Abs(n), Abs(d))
        s == IF d < 0 THEN -1 ELSE 1
    IN  <<s * (n \div g), s * (d \div g)>>

Num(n) == <<n, 1>>

LCM(a, b) == (a \div GCD(a, b)) * b

\* a + b
Add(a, b) ==
    IF a[1] = 0 THEN b
    ELSE IF b[1] = 0 THEN a
    ELSE LET l == LCM(a[2], b[2])
         IN  Norm(a[1] * (l \div a[2]) + b[1] * (l \div b[2]), l)

Neg(a) == <<-a[1], a[2]>>

\* a - b
Sub(a, b) == Add(a, Neg(b))

\* a * b
Mul(a, b) ==
    IF a[1] = 0 \/ b[1] = 0 THEN <<0, 1>>
    ELSE LET g1 == GCD(Abs(a[1]), b[2])
             g2 == GCD(Abs(b[1]), a[2])
         IN  Norm((a[1] \div g1) * (b[1] \div g2), (a[2] \div g2) * (b[2] \div g1))

\* a / b, b a non-zero integer literal of the code
DivInt(a, k) == Mul(a, Norm(1, k))

\* a < b
Lt(a, b) ==
    LET l == LCM(a[2], b[2])
    IN  a[1] * (l \div a[2]) < b[1] * (l \div b[2])

Gt(a, b) == Lt(b, a)
Le(a, b) == ~Lt(b, a)
Ge(a, b) == ~Lt(a, b)

\* Math.min, Math.max
MathMin(a, b) == IF Lt(b, a) THEN b ELSE a
MathMax(a, b) == IF Lt(a, b) THEN b ELSE a

Zero == Num(0)

undefined == <<>>

----------------------------------------------------------------------------
(* constants.ts                                                             *)

SUPER_GUARANTEE_RATE == Norm(115, 1000)
CONCESSIONAL_CONTRIBUTION_CAP == 27500
NON_CONCESSIONAL_CONTRIBUTION_CAP == 110000
TOTAL_SUPER_BALANCE_LIMIT_FOR_NON_CONCESSIONAL == 1900000
SUPER_EARNINGS_TAX_RATE == Norm(15, 100)

DEFAULT_SUPER_INPUTS ==
    [ currentAge |-> 30,
      retirementAge |-> 67,
      currentBalance |-> Num(50000),
      annualSalary |-> Num(80000),
      voluntaryConcessionalContribution |-> Num(0),
      voluntaryNonConcessionalContribution |-> Num(0),
      expectedReturnRate |-> Num(7),
      salaryGrowthRate |-> Num(3),
      inflationRate |-> Norm(25, 10) ]

DEFAULT_POST_RETIREMENT_INPUTS ==
    [ annualLivingExpenses |-> Num(60000),
      otherInvestmentIncome |-> Num(0) ]

----------------------------------------------------------------------------
(* The system clock as one invocation sees it: new Date().getFullYear() is  *)
(* evaluated once per loop iteration, and the year may roll over between    *)
(* two iterations.  A reading [year, rolls, at] shows `year` up to          *)
(* iteration at-1 and year+1 from iteration `at` on (when rolls).           *)

getFullYear(reading, i) ==
    IF reading.rolls /\ i >= reading.at THEN reading.year + 1 ELSE reading.year

----------------------------------------------------------------------------
(* projectSuperannuationBalance                                             *)

\* (mutant) the loop runs through retirementAge itself
AccLoopCondition_Inclusive(age, inputs) == age <= inputs.retirementAge

\* line 68: the loop condition
AccLoopCondition(age, inputs) == age < inputs.retirementAge

\* (mutant) the year is not advanced with the age
AccYearField_NoOffset(thisYear, age, inputs) == thisYear

\* line 69
AccYearField(thisYear, age, inputs) == thisYear + (age - inputs.currentAge)

\* line 71
SgContributions(currentSalary) == Mul(currentSalary, SUPER_GUARANTEE_RATE)

\* (mutant) a total equal to the cap is flagged too
ConcessionalCapExceededBy_AtCap(totalConcessional) ==
    IF Ge(totalConcessional, Num(CONCESSIONAL_CONTRIBUTION_CAP))
    THEN Sub(totalConcessional, Num(CONCESSIONAL_CONTRIBUTION_CAP))
    ELSE undefined

\* lines 75-82
ConcessionalCapExceededBy(totalConcessional) ==
    IF Gt(totalConcessional, Num(CONCESSIONAL_CONTRIBUTION_CAP))
    THEN Sub(totalConcessional, Num(CONCESSIONAL_CONTRIBUTION_CAP))
    ELSE undefined

\* (mutant) a balance equal to the limit keeps the standard cap
CurrentNonConcessionalCap_Strict(currentBalance) ==
    IF Gt(currentBalance, Num(TOTAL_SUPER_BALANCE_LIMIT_FOR_NON_CONCESSIONAL))
    THEN Num(0)
    ELSE Num(NON_CONCESSIONAL_CONTRIBUTION_CAP)

\* line 86
CurrentNonConcessionalCap(currentBalance) ==
    IF Ge(currentBalance, Num(TOTAL_SUPER_BALANCE_LIMIT_FOR_NON_CONCESSIONAL))
    THEN Num(0)
    ELSE Num(NON_CONCESSIONAL_CONTRIBUTION_CAP)

\* (mutant) a contribution equal to the cap is flagged too
NonConcessionalCapExceededBy_AtCap(contribution, cap) ==
    IF Ge(contribution, cap) THEN Sub(contribution, cap) ELSE undefined

\* lines 85, 88-91
NonConcessionalCapExceededBy(voluntaryNonConcessional, currentNonConcessionalCap) ==
    IF Gt(voluntaryNonConcessional, currentNonConcessionalCap)
    THEN Sub(voluntaryNonConcessional, currentNonConcessionalCap)
    ELSE undefined

\* (mutant) the whole voluntary amount is applied, whatever the cap
EffectiveNonConcessional_Uncapped(contribution, cap) == contribution

\* line 92
EffectiveNonConcessional(voluntaryNonConcessional, currentNonConcessionalCap) ==
    MathMin(voluntaryNonConcessional, currentNonConcessionalCap)

\* (mutant) the concessional cap is enforced on the amount contributed
BalanceBeforeReturns_Capped(currentBalance, totalConcessional, effectiveNonConcessional) ==
    Add(Add(currentBalance, MathMin(totalConcessional, Num(CONCESSIONAL_CONTRIBUTION_CAP))),
        effectiveNonConcessional)

\* line 97
BalanceBeforeReturns(currentBalance, totalConcessional, effectiveNonConcessional) ==
    Add(Add(currentBalance, totalConcessional), effectiveNonConcessional)

\* line 99
AccInvestmentReturns(balanceBeforeReturns, inputs) ==
    Mul(balanceBeforeReturns, DivInt(inputs.expectedReturnRate, 100))

\* (mutant) losses are taxed like gains
TaxOnEarnings_OnLosses(returns) == Mul(IF Lt(returns, Zero) THEN Neg(returns) ELSE returns, SUPER_EARNINGS_TAX_RATE)

\* (mutant) a negative return earns a tax credit
TaxOnEarnings_Always(returns) == Mul(returns, SUPER_EARNINGS_TAX_RATE)

\* line 100
TaxOnEarnings(investmentReturns) ==
    IF Gt(investmentReturns, Zero)
    THEN Mul(investmentReturns, SUPER_EARNINGS_TAX_RATE)
    ELSE Zero

\* (mutant) the earnings tax is not deducted
AccEndingBalance_NoTax(balanceBeforeReturns, investmentReturns, taxOnEarnings) ==
    Add(balanceBeforeReturns, investmentReturns)

\* line 102
AccEndingBalance(balanceBeforeReturns, investmentReturns, taxOnEarnings) ==
    Sub(Add(balanceBeforeReturns, investmentReturns), taxOnEarnings)

\* (mutant) the salary is multiplied by the rate alone
NextSalary_RateOnly(salary, ins) == Mul(salary, DivInt(ins.salaryGrowthRate, 100))

\* line 120
NextSalary(currentSalary, inputs) ==
    Mul(currentSalary, Add(Num(1), DivInt(inputs.salaryGrowthRate, 100)))

\* lines 69-117: the record one iteration pushes
SuperYearProjection(inputs, year, age, currentBalance, currentSalary) ==
    LET sgContributions == SgContributions(currentSalary)
        voluntaryConcessional == inputs.voluntaryConcessionalContribution
        totalConcessional == Add(sgContributions, voluntaryConcessional)
        concessionalCapExceededBy == ConcessionalCapExceededBy(totalConcessional)
        voluntaryNonConcessional == inputs.voluntaryNonConcessionalContribution
        currentNonConcessionalCap == CurrentNonConcessionalCap(currentBalance)
        nonConcessionalCapExceededBy ==
            NonConcessionalCapExceededBy(voluntaryNonConcessional, currentNonConcessionalCap)
        effectiveNonConcessional ==
            EffectiveNonConcessional(voluntaryNonConcessional, currentNonConcessionalCap)
        balanceBeforeReturns ==
            BalanceBeforeReturns(currentBalance, totalConcessional, effectiveNonConcessional)
        investmentReturns == AccInvestmentReturns(balanceBeforeReturns, inputs)
        taxOnEarnings == TaxOnEarnings(investmentReturns)
        endingBalance == AccEndingBalance(balanceBeforeReturns, investmentReturns, taxOnEarnings)
    IN  [ year |-> year,
          age |-> age,
          startingBalance |-> currentBalance,
          sgContributions |-> sgContributions,
          voluntaryConcessional |-> voluntaryConcessional,
          voluntaryNonConcessional |-> effectiveNonConcessional,
          totalConcessional |-> totalConcessional,
          investmentReturns |-> investmentReturns,
          taxOnEarnings |-> taxOnEarnings,
          endingBalance |-> endingBalance,
          concessionalCapExceededBy |-> concessionalCapExceededBy,
          nonConcessionalCapExceededBy |-> nonConcessionalCapExceededBy ]

\* (mutant) the balance is not carried over: every year starts from the
\* same balance
RECURSIVE AccLoop_NoCarry(_, _, _, _, _, _)
AccLoop_NoCarry(ins, clockRead, a, balance, salary, records) ==
    IF ~AccLoopCondition(a, ins)
    THEN records
    ELSE LET year == AccYearField(getFullYear(clockRead, a - ins.currentAge), a, ins)
             p == SuperYearProjection(ins, year, a, balance, salary)
         IN  AccLoop_NoCarry(ins, clockRead, a + 1, balance,
                             NextSalary(salary, ins), Append(records, p))

\* lines 68-121: the loop, from `age` on
RECURSIVE AccLoop(_, _, _, _, _, _)
AccLoop(inputs, reading, age, currentBalance, currentSalary, projections) ==
    IF ~AccLoopCondition(age, inputs)
    THEN projections
    ELSE LET year == AccYearField(getFullYear(reading, age - inputs.currentAge), age, inputs)
             p == SuperYearProjection(inputs, year, age, currentBalance, currentSalary)
         IN  AccLoop(inputs, reading, age + 1, p.endingBalance,
                     NextSalary(currentSalary, inputs), Append(projections, p))

\* lines 63-123
projectSuperannuationBalance(inputs, reading) ==
    AccLoop(inputs, reading, inputs.currentAge, inputs.currentBalance,
            inputs.annualSalary, <<>>)

----------------------------------------------------------------------------
(* projectPostRetirement                                                    *)

\* line 131: the default of the parameter maxYears
DEFAULT_MAX_YEARS == 35

\* line 131: maxYears as the body sees it; an omitted argument is <<>>
MaxYearsOf(maxYears) == IF maxYears = <<>> THEN DEFAULT_MAX_YEARS ELSE maxYears[1]

\* (mutant) the loop runs one year past the horizon
DrawLoopCondition_Inclusive(i, maxYears) ==
    i <= (IF maxYears = <<>> THEN 35 ELSE maxYears[1])

\* line 137: the loop condition
DrawLoopCondition(i, maxYears) == i < MaxYearsOf(maxYears)

\* (mutant) the depletion check is made in the first year too
DepletedBefore_FromStart(balance, i) == Le(balance, Zero)

\* line 139: the break at the top of the loop
DepletedBefore(currentBalance, i) == Le(currentBalance, Zero) /\ i > 0

\* line 141
DrawYearField(thisYear, age, superInputs) == thisYear + (age - superInputs.currentAge)

\* (mutant) positive pension-phase earnings are taxed as in accumulation
DrawInvestmentReturns_Taxed(currentBalance, superInputs) ==
    LET gross == Mul(currentBalance, DivInt(superInputs.expectedReturnRate, 100))
    IN  IF Gt(gross, Zero) THEN Sub(gross, Mul(gross, SUPER_EARNINGS_TAX_RATE)) ELSE gross

\* line 143
DrawInvestmentReturns(currentBalance, superInputs) ==
    Mul(currentBalance, DivInt(superInputs.expectedReturnRate, 100))

\* (mutant) the drawdown is not capped by the balance after returns
Drawdown_Uncapped(expenses, postIns, balance, returns) ==
    MathMax(Zero, Sub(expenses, postIns.otherInvestmentIncome))

\* (mutant) the floor at zero of lines 147 and 156 is missing
Drawdown_NoFloor(expenses, postIns, balance, returns) ==
    MathMin(Sub(expenses, postIns.otherInvestmentIncome), Add(balance, returns))

\* (mutant) the first computation (lines 146-150) stands; lines 154-156 are
\* missing
Drawdown_FirstComputation(expenses, postIns, balance, returns) ==
    LET d1 == Sub(expenses, postIns.otherInvestmentIncome)
        d2 == IF Lt(d1, Zero) THEN Zero ELSE d1
    IN  MathMin(d2, Add(balance, returns))

\* lines 146-156: drawdown is assigned four times; the last value stands
Drawdown(currentAnnualLivingExpenses, postRetirementInputs, currentBalance, investmentReturns) ==
    LET d1 == Sub(currentAnnualLivingExpenses, postRetirementInputs.otherInvestmentIncome)
        d2 == IF Lt(d1, Zero) THEN Zero ELSE d1
        d3 == MathMin(d2, Add(currentBalance, investmentReturns))
        balanceAfterReturns == Add(currentBalance, investmentReturns)
        d4 == MathMin(Sub(currentAnnualLivingExpenses,
                          postRetirementInputs.otherInvestmentIncome),
                      balanceAfterReturns)
    IN  IF Lt(d4, Zero) THEN Zero ELSE d4

\* (mutant) expenses exactly met count as a shortfall
Shortfall_AtEqual(currentAnnualLivingExpenses, totalIncomeAvailable) ==
    IF Ge(currentAnnualLivingExpenses, totalIncomeAvailable)
    THEN Sub(currentAnnualLivingExpenses, totalIncomeAvailable)
    ELSE undefined

\* line 160
Shortfall(currentAnnualLivingExpenses, totalIncomeAvailable) ==
    IF Gt(currentAnnualLivingExpenses, totalIncomeAvailable)
    THEN Sub(currentAnnualLivingExpenses, totalIncomeAvailable)
    ELSE undefined

\* (mutant) the floor at zero is missing
ReportedEndingBalance_NoFloor(endingBalance) == endingBalance

\* line 171: the balance the record reports
ReportedEndingBalance(endingBalance) == MathMax(Zero, endingBalance)

\* (mutant) the break after the push is missing
DepletedAfter_Never(balance) == FALSE

\* line 174: the break after the push
DepletedAfter(endingBalance) == Le(endingBalance, Zero)

\* (mutant) the living expenses are not inflated
NextLivingExpenses_Flat(expenses, ins) == expenses

\* line 177
NextLivingExpenses(currentAnnualLivingExpenses, superInputs) ==
    Mul(currentAnnualLivingExpenses, Add(Num(1), DivInt(superInputs.inflationRate, 100)))

\* lines 143-158: the balance of the year before the floor of line 171
DrawEndingBalance(currentBalance, investmentReturns, drawdown) ==
    Sub(Add(currentBalance, investmentReturns), drawdown)

\* lines 141-172: the record one iteration pushes
PostRetirementYearProjection(superInputs, postRetirementInputs, year, age, currentBalance, currentAnnualLivingExpenses) ==
    LET investmentReturns == DrawInvestmentReturns(currentBalance, superInputs)
        drawdown == Drawdown(currentAnnualLivingExpenses, postRetirementInputs,
                             currentBalance, investmentReturns)
        endingBalance == DrawEndingBalance(currentBalance, investmentReturns, drawdown)
        totalIncomeAvailable == Add(drawdown, postRetirementInputs.otherInvestmentIncome)
        shortfall == Shortfall(currentAnnualLivingExpenses, totalIncomeAvailable)
    IN  [ year |-> year,
          age |-> age,
          startingBalance |-> currentBalance,
          investmentReturns |-> investmentReturns,
          drawdown |-> drawdown,
          otherIncome |-> postRetirementInputs.otherInvestmentIncome,
          totalIncome |-> totalIncomeAvailable,
          shortfall |-> shortfall,
          endingBalance |-> ReportedEndingBalance(endingBalance) ]

\* lines 137-179: one test of the for condition and, where it holds, one
\* pass through the body.  loop holds the loop's variables (i, currentBalance,
\* currentAnnualLivingExpenses, projections) and whether the loop was left.
DrawLoopBody(retirementAge, superInputs, postRetirementInputs, maxYears, reading, loop) ==
    IF loop.left \/ ~DrawLoopCondition(loop.i, maxYears)
    THEN [loop EXCEPT !.left = TRUE]
    ELSE
      LET age == retirementAge + loop.i IN
      IF DepletedBefore(loop.currentBalance, loop.i)
      THEN [loop EXCEPT !.left = TRUE]
      ELSE
        LET year == DrawYearField(getFullYear(reading, loop.i), age, superInputs)
            p == PostRetirementYearProjection(superInputs, postRetirementInputs, year, age,
                                              loop.currentBalance, loop.currentAnnualLivingExpenses)
            endingBalance == DrawEndingBalance(loop.currentBalance, p.investmentReturns, p.drawdown)
        IN  IF DepletedAfter(endingBalance)
            THEN [loop EXCEPT !.projections = Append(loop.projections, p), !.left = TRUE]
            ELSE [ i |-> loop.i + 1,
                   currentBalance |-> endingBalance,
                   currentAnnualLivingExpenses |->
                       NextLivingExpenses(loop.currentAnnualLivingExpenses, superInputs),
                   projections |-> Append(loop.projections, p),
                   left |-> FALSE ]

\* lines 137-179: the loop, as `tests` successive tests of its condition.
\* The tests are made half by half, which keeps the evaluation shallow.
RECURSIVE DrawLoop(_, _, _, _, _, _, _)
DrawLoop(retirementAge, superInputs, postRetirementInputs, maxYears, reading, tests, loop) ==
    IF tests <= 0 \/ loop.left
    THEN loop
    ELSE IF tests = 1
    THEN DrawLoopBody(retirementAge, superInputs, postRetirementInputs, maxYears, reading, loop)
    ELSE LET half == DrawLoop(retirementAge, superInputs, postRetirementInputs, maxYears, reading,
                              tests \div 2, loop)
         IN  IF half.left
             THEN half
             ELSE DrawLoop(retirementAge, superInputs, postRetirementInputs, maxYears, reading,
                           tests - (tests \div 2), half)

\* lines 126-182.  A for loop over i < maxYears tests its condition at most
\* maxYears + 1 times.
projectPostRetirement(startingRetirementBalance, retirementAge, superInputs, postRetirementInputs, maxYears, reading) ==
    DrawLoop(retirementAge, superInputs, postRetirementInputs, maxYears, reading,
             MaxYearsOf(maxYears) + 1,
             [ i |-> 0,
               currentBalance |-> startingRetirementBalance,
               currentAnnualLivingExpenses |-> postRetirementInputs.annualLivingExpenses,
               projections |-> <<>>,
               left |-> FALSE ]).projections

----------------------------------------------------------------------------
(* Bounds and the inputs the invocations are drawn from.                    *)

MaxAccYears == 2      \* longest accumulation phase, in years
MaxHorizonArg == 3    \* largest maxYears passed explicitly
MaxRollAt == 2        \* latest iteration before which the year rolls over

ClockYears == {2025, 2026}

Percent == {Num(-200), Num(0), Num(100)}

SuperInputsSet ==
    { [ currentAge |-> DEFAULT_SUPER_INPUTS.currentAge,
        retirementAge |-> ra,
        currentBalance |-> Num(cb),
        annualSalary |-> Num(sal),
        voluntaryConcessionalContribution |-> Num(vc),
        voluntaryNonConcessionalContribution |-> Num(vnc),
        expectedReturnRate |-> r,
        salaryGrowthRate |-> g,
        inflationRate |-> DEFAULT_SUPER_INPUTS.inflationRate ] :
      ra \in (DEFAULT_SUPER_INPUTS.currentAge - 1) ..
             (DEFAULT_SUPER_INPUTS.currentAge + MaxAccYears),
      cb \in {-1000, 0, 1800000, 1900000},
      sal \in {0, 200000},
      vc \in {0, 4500, 5000},
      vnc \in {0, 110000, 120000},
      r \in Percent \cup {Num(-100)},
      g \in Percent \cup {Num(-100)} }

\* The arguments of projectPostRetirement.  Over the default horizon only a
\* return rate <= 0 is drawn: a balance doubling for 35 years is not
\* representable in the model's integers.
DrawdownArgsSet ==
    { [ fn |-> "projectPostRetirement",
        startingRetirementBalance |-> Num(sb),
        retirementAge |-> DEFAULT_SUPER_INPUTS.retirementAge,
        superInputs |-> [DEFAULT_SUPER_INPUTS EXCEPT !.expectedReturnRate = r,
                                                     !.inflationRate = infl],
        postRetirementInputs |-> [ annualLivingExpenses |-> Num(le),
                                   otherInvestmentIncome |-> Num(oi) ],
        maxYears |-> my ] :
      sb \in {-1000, 0, 10000, 100000},
      r \in Percent \cup {Num(-100)},
      infl \in {Num(0), Num(100)},
      le \in {0, 60000},
      oi \in {0, 60000, 70000},
      my \in {<<>>} \cup {<<n>> : n \in 0..MaxHorizonArg} }

DrawdownCalls == {a \in DrawdownArgsSet : a.maxYears = <<>> => Le(a.superInputs.expectedReturnRate, Zero)}

AccumulationCalls == {[fn |-> "projectSuperannuationBalance", inputs |-> in] : in \in SuperInputsSet}

NoCall == [fn |-> "none"]

\* What an invocation starting now can read from the clock.
Readings ==
    {[year |-> clock, rolls |-> FALSE, at |-> 0]}
    \cup {[year |-> clock, rolls |-> TRUE, at |-> k] :
            k \in IF clock + 1 \in ClockYears THEN 1..MaxRollAt ELSE {}}

ClockAfter(reading) == getFullYear(reading, reading.at)

Invoke(c, reading) ==
    IF c.fn = "projectSuperannuationBalance"
    THEN projectSuperannuationBalance(c.inputs, reading)
    ELSE projectPostRetirement(c.startingRetirementBalance, c.retirementAge, c.superInputs, c.postRetirementInputs, c.maxYears, reading)

----------------------------------------------------------------------------
(* BudgetingSection: the transactions, the form that adds and edits them,   *)
(* and the figures derived from them.                                       *)

null == <<>>

INCOME == "income"
EXPENSE == "expense"
MONTHLY == "monthly"

DEFAULT_INCOME_CATEGORIES == <<"Salary", "Bonus", "Investment", "Rental", "Freelance", "Other">>
DEFAULT_EXPENSE_CATEGORIES == <<"Housing", "Utilities", "Groceries", "Transport", "Healthcare", "Entertainment", "Education", "Debt Repayment", "Savings/Investments", "Personal Care", "Other">>

\* The texts a number input can hold, and the number parseFloat reads from
\* each; '' is not among them, every caller tests for it first.
NumberTexts == {"-1", "0", "1", "2", "2.5", "3", "4", "5", "7.5", "50"}

parseFloat(value) ==
    CASE value = "-1" -> Num(-1)
      [] value = "0" -> Num(0)
      [] value = "1" -> Num(1)
      [] value = "2" -> Num(2)
      [] value = "2.5" -> Norm(5, 2)
      [] value = "3" -> Num(3)
      [] value = "4" -> Num(4)
      [] value = "5" -> Num(5)
      [] value = "7.5" -> Norm(15, 2)
      [] value = "50" -> Num(50)

\* Number.prototype.toString, on the numbers above.
NumberToString(n) == CHOOSE value \in NumberTexts : parseFloat(value) = n

\* The dates a date input is given here: YYYY-MM-DD texts.
DateTexts == {"2025-01-01", "2025-02-01"}

\* date.substring(0, 7)
MonthYearKey(date) ==
    CASE date = "2025-01-01" -> "2025-01"
      [] date = "2025-02-01" -> "2025-02"

\* new Date(date + 'T00:00:00').getTime() / (1000 * 60 * 60 * 24), counted
\* from the first of the dates.
DayOf(date) ==
    CASE date = "2025-01-01" -> 0
      [] date = "2025-02-01" -> 31

\* a.localeCompare(b) < 0 on month keys: YYYY-MM texts sort as their months.
KeyBefore(a, b) == a = "2025-01" /\ b = "2025-02"

\* new Date().toISOString().split('T')[0] when the module was loaded.
Today == "2025-01-01"

initialFormState ==
    [type |-> EXPENSE,
     category |-> DEFAULT_EXPENSE_CATEGORIES[1],
     amount |-> "",
     date |-> Today,
     description |-> "",
     isRecurring |-> FALSE,
     recurrenceFrequency |-> MONTHLY,
     recurrenceEndDate |-> ""]

initialForecastInputs ==
    [baselineSource |-> "manual",
     baselineAnnualIncome |-> Num(60000),
     baselineAnnualExpenses |-> Num(40000),
     forecastYears |-> Num(5),
     incomeGrowthRate |-> Num(2),
     expenseGrowthRate |-> Num(3)]

\* transaction.isRecurring || false, and the two like it: an optional field
\* or its default.
FieldOr(t, field, default) == IF field \in DOMAIN t THEN t[field] ELSE default

\* The form filled from a transaction (lines 136-145).
FormOf(transaction) ==
    [type |-> transaction.type,
     category |-> transaction.category,
     amount |-> NumberToString(transaction.amount),
     date |-> transaction.date,
     description |-> transaction.description,
     isRecurring |-> FieldOr(transaction, "isRecurring", FALSE),
     recurrenceFrequency |-> FieldOr(transaction, "recurrenceFrequency", MONTHLY),
     recurrenceEndDate |-> FieldOr(transaction, "recurrenceEndDate", "")]

\* setExpandedMonths(prev => ({ ...prev, [key]: true }))
Expanded(prev, key) == [k \in DOMAIN prev \cup {key} |-> IF k = key THEN TRUE ELSE prev[k]]

\* The transaction a submitted form describes, under the given id: the
\* recurrence fields exist only on a recurring transaction, and the end date
\* only when one was entered.
CompleteTransactionData(form, id) ==
    IF ~form.isRecurring
    THEN [type |-> form.type, category |-> form.category, amount |-> parseFloat(form.amount), date |-> form.date,
          description |-> form.description, id |-> id, isRecurring |-> form.isRecurring]
    ELSE IF form.recurrenceEndDate = ""
    THEN [type |-> form.type, category |-> form.category, amount |-> parseFloat(form.amount), date |-> form.date,
          description |-> form.description, id |-> id, isRecurring |-> form.isRecurring,
          recurrenceFrequency |-> form.recurrenceFrequency]
    ELSE [type |-> form.type, category |-> form.category, amount |-> parseFloat(form.amount), date |-> form.date,
          description |-> form.description, id |-> id, isRecurring |-> form.isRecurring,
          recurrenceFrequency |-> form.recurrenceFrequency, recurrenceEndDate |-> form.recurrenceEndDate]

\* (mutant) an edit that finds no entry adds one
EditedTransactions_Upsert(prev, id, data) == IF \E k \in 1..Len(prev) : prev[k].id = id THEN [k \in 1..Len(prev) |-> IF prev[k].id = id THEN data ELSE prev[k]] ELSE Append(prev, data)

\* prev.map(t => t.id === editingTransaction.id ? completeTransactionData : t)
EditedTransactions(prev, id, data) == [k \in 1..Len(prev) |-> IF prev[k].id = id THEN data ELSE prev[k]]

\* prev.filter(t => t.id !== id)
FilteredTransactions(prev, id) == SelectSeq(prev, LAMBDA t : t.id # id)

\* The month keys of the list, and the most recent of them
\* (sortedAllMonthYearKeys[0]).
MonthKeysOf(txs) == {MonthYearKey(txs[k].date) : k \in 1..Len(txs)}

MostRecentMonthKey(txs) == CHOOSE key \in MonthKeysOf(txs) : \A other \in MonthKeysOf(txs) : ~KeyBefore(key, other)

\* The effect of lines 241-249 run to its fixed point: with transactions and
\* no month expanded, the most recent month is expanded unless the user has
\* set it.
ExpandEffect(txs, expanded) ==
    IF Len(txs) > 0 /\ (\A k \in DOMAIN expanded : ~expanded[k]) /\ MostRecentMonthKey(txs) \notin DOMAIN expanded
    THEN Expanded(expanded, MostRecentMonthKey(txs))
    ELSE expanded

\* transactions.filter(t => t.type === type).reduce((sum, t) => sum + t.amount, 0)
RECURSIVE TotalTracked(_, _)
TotalTracked(txs, type) ==
    IF Len(txs) = 0 THEN Zero
    ELSE LET rest == TotalTracked(SubSeq(txs, 1, Len(txs) - 1), type)
             last == txs[Len(txs)]
         IN  IF last.type = type THEN Add(rest, last.amount) ELSE rest

\* (maxDate - minDate) / (1000 * 60 * 60 * 24) + 1, or 1 for a single day.
DaysInRange(txs) ==
    LET days == {DayOf(txs[k].date) : k \in 1..Len(txs)}
        minDate == CHOOSE d \in days : \A e \in days : d <= e
        maxDate == CHOOSE d \in days : \A e \in days : e <= d
    IN  IF minDate = maxDate THEN 1 ELSE (maxDate - minDate) + 1

\* The effect of lines 308-349: no figures without transactions; otherwise
\* the tracked total per day of the range, times 365.25.  Every date here is
\* a valid date, and the range is at least a day.
Annualized(txs, type) ==
    IF Len(txs) = 0 THEN null
    ELSE Mul(DivInt(TotalTracked(txs, type), DaysInRange(txs)), Norm(1461, 4))

\* The list as local storage holds it when the component first renders.
BudgetInitial ==
    /\ transactions = <<>>
    /\ formState = initialFormState
    /\ showForm = FALSE
    /\ editingTransaction = null
    /\ expandedMonths = <<>>
    /\ forecastInputs = initialForecastInputs
    /\ projectedBudgetData = null
    /\ annualizedIncomeFromTransactions = null
    /\ annualizedExpensesFromTransactions = null
    /\ lastSubmit = <<>>

----------------------------------------------------------------------------

(* The state machine: the clock advances; a projector is invoked, invoked   *)
(* once more with the same arguments, and the observation is dropped.       *)

Init ==
    /\ clock \in ClockYears
    /\ call = NoCall
    /\ now = <<>>
    /\ result = <<>>
    /\ rerun = <<>>
    /\ sectionInputs = DEFAULT_SUPER_INPUTS
    /\ sectionPostRetirementInputs = DEFAULT_POST_RETIREMENT_INPUTS
    /\ sectionProjections = <<>>
    /\ sectionPostRetirementProjections = <<>>
    /\ mounted = FALSE
    /\ BudgetInitial

Tick ==
    /\ clock + 1 \in ClockYears
    /\ clock' = clock + 1
    /\ UNCHANGED <<call, now, result, rerun, sectionVars, budgetVars>>

CallAccumulation ==
    /\ call = NoCall
    /\ \E c \in AccumulationCalls, reading \in Readings :
          /\ call' = c
          /\ now' = reading
          /\ result' = Invoke(c, reading)
          /\ clock' = ClockAfter(reading)
    /\ rerun' = <<>>
    /\ UNCHANGED <<sectionVars, budgetVars>>

CallDrawdown ==
    /\ call = NoCall
    /\ \E c \in DrawdownCalls, reading \in Readings :
          /\ call' = c
          /\ now' = reading
          /\ result' = Invoke(c, reading)
          /\ clock' = ClockAfter(reading)
    /\ rerun' = <<>>
    /\ UNCHANGED <<sectionVars, budgetVars>>

Repeat ==
    /\ call # NoCall
    /\ rerun = <<>>
    /\ \E reading \in Readings :
          /\ rerun' = <<[now |-> reading, result |-> Invoke(call, reading)]>>
          /\ clock' = ClockAfter(reading)
    /\ UNCHANGED <<call, now, result, sectionVars, budgetVars>>

Forget ==
    /\ call # NoCall
    /\ call' = NoCall
    /\ now' = <<>>
    /\ result' = <<>>
    /\ rerun' = <<>>
    /\ UNCHANGED <<clock, sectionVars, budgetVars>>

Next == Tick \/ CallAccumulation \/ CallDrawdown \/ Repeat \/ Forget

Spec == Init /\ [][Next]_vars

----------------------------------------------------------------------------
(* SuperannuationSection: the component that holds the inputs and the two   *)
(* displayed sequences and runs both projectors.                            *)

\* What the stored inputs and the number fields of the form are drawn from.
\* Every forecast of the component runs the drawdown over the default
\* horizon, so the return rate is <= 0 and inflation is 0 or 100 per cent;
\* the other fields keep their defaults.
SectionRetirementAges ==
    {DEFAULT_SUPER_INPUTS.currentAge - 1, DEFAULT_SUPER_INPUTS.currentAge, DEFAULT_SUPER_INPUTS.currentAge + MaxAccYears}

SectionFieldValues ==
    [ retirementAge |-> SectionRetirementAges,
      currentBalance |-> {Num(0), Num(100000)},
      expectedReturnRate |-> {Num(-100), Num(0)},
      inflationRate |-> {Num(0), Num(100)} ]

SectionPostFieldValues ==
    [ annualLivingExpenses |-> {Num(0), Num(60000)},
      otherInvestmentIncome |-> {Num(0), Num(60000)} ]

SectionInputsSet ==
    { [DEFAULT_SUPER_INPUTS EXCEPT !.currentAge = DEFAULT_SUPER_INPUTS.currentAge,
                                   !.retirementAge = ra,
                                   !.currentBalance = cb,
                                   !.expectedReturnRate = r,
                                   !.inflationRate = infl] :
      ra \in SectionFieldValues.retirementAge,
      cb \in SectionFieldValues.currentBalance,
      r \in SectionFieldValues.expectedReturnRate,
      infl \in SectionFieldValues.inflationRate }

SectionPostInputsSet ==
    { [DEFAULT_POST_RETIREMENT_INPUTS EXCEPT !.annualLivingExpenses = le,
                                             !.otherInvestmentIncome = oi] :
      le \in SectionPostFieldValues.annualLivingExpenses,
      oi \in SectionPostFieldValues.otherInvestmentIncome }

\* The clock as the second projector of one handler reads it: `reads` reads
\* were made by the first.
LaterReading(reading, reads) == [reading EXCEPT !.at = @ - reads]

\* The balance handed to the drawdown taken from the first accumulation
\* record in place of the last.
FinalBalance_First(pre) == pre[1].endingBalance

\* SuperannuationSection.tsx line 43
FinalBalance(preRetirement) == preRetirement[Len(preRetirement)].endingBalance

\* A runForecast whose else branch (lines 46-48) is missing.
runForecast_NoElse(clockRead) ==
    /\ sectionProjections' = projectSuperannuationBalance(sectionInputs, clockRead)
    /\ LET preRetirement == sectionProjections'
       IN  IF Len(preRetirement) > 0
           THEN sectionPostRetirementProjections' =
                    projectPostRetirement(FinalBalance(preRetirement), sectionInputs.retirementAge, sectionInputs, sectionPostRetirementInputs, undefined, LaterReading(clockRead, Len(preRetirement)))
           ELSE UNCHANGED sectionPostRetirementProjections

\* SuperannuationSection.tsx lines 38-49.  preRetirement is what
\* setProjections was given.
runForecast(reading) ==
    /\ sectionProjections' = projectSuperannuationBalance(sectionInputs, reading)
    /\ LET preRetirement == sectionProjections'
       IN  IF Len(preRetirement) > 0
           THEN sectionPostRetirementProjections' =
                    projectPostRetirement(FinalBalance(preRetirement), sectionInputs.retirementAge, sectionInputs, sectionPostRetirementInputs, undefined, LaterReading(reading, Len(preRetirement)))
           ELSE sectionPostRetirementProjections' = <<>>

\* superDepletesAtAge with < in place of <=.
superDepletesAtAge_Strict ==
    IF /\ Len(sectionPostRetirementProjections) > 0
       /\ Lt(sectionPostRetirementProjections[Len(sectionPostRetirementProjections)].endingBalance, Zero)
    THEN <<sectionPostRetirementProjections[Len(sectionPostRetirementProjections)].age>>
    ELSE null

\* SuperannuationSection.tsx line 67: <<age>>, or null
superDepletesAtAge ==
    IF /\ Len(sectionPostRetirementProjections) > 0
       /\ Le(sectionPostRetirementProjections[Len(sectionPostRetirementProjections)].endingBalance, Zero)
    THEN <<sectionPostRetirementProjections[Len(sectionPostRetirementProjections)].age>>
    ELSE null

\* SuperannuationSection.tsx lines 216, 217 and 244: the test `p.field ? ... :
\* ...` of an optional number; undefined and 0 are falsy
Truthy(field) == field # undefined /\ field # Zero

\* The stored inputs are whatever an earlier session left in local storage.
SectionInit ==
    /\ clock \in ClockYears
    /\ call = NoCall
    /\ now = <<>>
    /\ result = <<>>
    /\ rerun = <<>>
    /\ sectionInputs \in SectionInputsSet
    /\ sectionPostRetirementInputs \in SectionPostInputsSet
    /\ sectionProjections = <<>>
    /\ sectionPostRetirementProjections = <<>>
    /\ mounted = FALSE
    /\ BudgetInitial

\* lines 52-55: the effect that runs runForecast once, after the first render
MountEffect ==
    /\ ~mounted
    /\ mounted' = TRUE
    /\ \E reading \in Readings :
          /\ runForecast(reading)
          /\ clock' = ClockAfter(reading)
    /\ UNCHANGED <<call, now, result, rerun, sectionInputs, sectionPostRetirementInputs, budgetVars>>

\* lines 133-135: a click of Update Forecast
UpdateForecastClick ==
    /\ mounted
    /\ \E reading \in Readings :
          /\ runForecast(reading)
          /\ clock' = ClockAfter(reading)
    /\ UNCHANGED <<call, now, result, rerun, sectionInputs, sectionPostRetirementInputs, mounted, budgetVars>>

\* A handleInputChange that also recomputes the forecast.
handleInputChange_Recompute ==
    /\ mounted
    /\ \E field \in DOMAIN SectionFieldValues :
          \E value \in SectionFieldValues[field] :
              sectionInputs' = [sectionInputs EXCEPT ![field] = value]
    /\ sectionProjections' = projectSuperannuationBalance(sectionInputs', [year |-> clock, rolls |-> FALSE, at |-> 0])
    /\ UNCHANGED <<clock, call, now, result, rerun, sectionPostRetirementInputs, sectionPostRetirementProjections, mounted, budgetVars>>

\* lines 33-36, with setter = setInputs (the fields of lines 96-131)
handleInputChange ==
    /\ mounted
    /\ \E field \in DOMAIN SectionFieldValues :
          \E value \in SectionFieldValues[field] :
              sectionInputs' = [sectionInputs EXCEPT ![field] = value]
    /\ UNCHANGED <<clock, call, now, result, rerun, sectionPostRetirementInputs, sectionProjections, sectionPostRetirementProjections, mounted, budgetVars>>

\* lines 33-36, with setter = setPostRetirementInputs (the fields shown
\* while projections is not empty)
handlePostRetirementInputChange ==
    /\ mounted
    /\ Len(sectionProjections) > 0
    /\ \E field \in DOMAIN SectionPostFieldValues :
          \E value \in SectionPostFieldValues[field] :
              sectionPostRetirementInputs' = [sectionPostRetirementInputs EXCEPT ![field] = value]
    /\ UNCHANGED <<clock, call, now, result, rerun, sectionInputs, sectionProjections, sectionPostRetirementProjections, mounted, budgetVars>>

SectionNext == Tick \/ MountEffect \/ UpdateForecastClick \/ handleInputChange \/ handlePostRetirementInputChange

SectionSpec == SectionInit /\ [][SectionNext]_vars

----------------------------------------------------------------------------
(* BudgetingSection: the transaction form and the list (lines 119-219 and   *)
(* the buttons of lines 504-663).                                           *)

\* generateId() yields one of these.
Ids == {"id1", "id2"}

\* The transactions an earlier session left in local storage.
StoredTransactionLists ==
    LET salary == CompleteTransactionData([initialFormState EXCEPT !.type = INCOME, !.category = DEFAULT_INCOME_CATEGORIES[1], !.amount = "50"], "id1")
        housing == CompleteTransactionData([initialFormState EXCEPT !.amount = "7.5", !.date = "2025-02-01"], "id2")
    IN  {<<>>, <<salary>>, <<salary, housing>>}

\* What the fields of the transaction form are given.  The amount and the
\* date may be emptied.
FormFieldTexts(name) ==
    CASE name = "type" -> {INCOME, EXPENSE}
      [] name = "amount" -> {"", "7.5", "50"}
      [] name = "date" -> {""} \cup DateTexts

FormFields == {"type", "amount", "date"}

\* The first category of the chosen type (line 129).
FirstCategory(type) == IF type = INCOME THEN DEFAULT_INCOME_CATEGORIES[1] ELSE DEFAULT_EXPENSE_CATEGORIES[1]

\* The ids of the list, and the ids generateId() can yield next: an id of 9
\* random characters repeats none of the few in the list.
IdsOf(txs) == {txs[k].id : k \in 1..Len(txs)}

FreshIds(txs) == Ids \ IdsOf(txs)

\* What a submit found when it ran: the transaction being edited (or null)
\* and the list as it was.
Found(editing, txs) == <<[editing |-> editing, before |-> txs]>>

BudgetingInit ==
    /\ clock \in ClockYears
    /\ call = NoCall
    /\ now = <<>>
    /\ result = <<>>
    /\ rerun = <<>>
    /\ sectionInputs = DEFAULT_SUPER_INPUTS
    /\ sectionPostRetirementInputs = DEFAULT_POST_RETIREMENT_INPUTS
    /\ sectionProjections = <<>>
    /\ sectionPostRetirementProjections = <<>>
    /\ mounted = FALSE
    /\ transactions \in StoredTransactionLists
    /\ formState = initialFormState
    /\ showForm = FALSE
    /\ editingTransaction = null
    /\ expandedMonths = ExpandEffect(transactions, <<>>)
    /\ forecastInputs = initialForecastInputs
    /\ projectedBudgetData = null
    /\ annualizedIncomeFromTransactions = Annualized(transactions, INCOME)
    /\ annualizedExpensesFromTransactions = Annualized(transactions, EXPENSE)
    /\ lastSubmit = <<>>

\* What no handler of the form or the list touches.
BudgetingFrame == UNCHANGED <<clock, call, now, result, rerun, sectionVars, forecastInputs, projectedBudgetData>>

\* The Add Transaction button, shown while the form is not (lines 504-514).
AddTransactionClick ==
    /\ ~showForm
    /\ editingTransaction' = null
    /\ formState' = initialFormState
    /\ showForm' = TRUE
    /\ lastSubmit' = <<>>
    /\ UNCHANGED <<transactions, expandedMonths, annualizedIncomeFromTransactions, annualizedExpensesFromTransactions>>
    /\ BudgetingFrame

\* The Cancel button of the form (line 586).
CancelClick ==
    /\ showForm
    /\ editingTransaction' = null
    /\ formState' = initialFormState
    /\ showForm' = FALSE
    /\ lastSubmit' = <<>>
    /\ UNCHANGED <<transactions, expandedMonths, annualizedIncomeFromTransactions, annualizedExpensesFromTransactions>>
    /\ BudgetingFrame

\* handleInputChange of BudgetingSection (lines 119-132), on a field of the
\* shown form.
handleFormInputChange ==
    /\ showForm
    /\ \E name \in FormFields : \E value \in FormFieldTexts(name) :
          formState' = IF name = "type"
                       THEN [formState EXCEPT !.type = value, !.category = FirstCategory(value)]
                       ELSE [formState EXCEPT ![name] = value]
    /\ lastSubmit' = <<>>
    /\ UNCHANGED <<transactions, showForm, editingTransaction, expandedMonths, annualizedIncomeFromTransactions, annualizedExpensesFromTransactions>>
    /\ BudgetingFrame

\* The Edit button of a listed transaction (line 660).
handleEditTransaction ==
    /\ \E k \in 1..Len(transactions) :
          LET transaction == transactions[k]
          IN  /\ editingTransaction' = <<transaction>>
              /\ formState' = FormOf(transaction)
              /\ expandedMonths' = ExpandEffect(transactions, Expanded(expandedMonths, MonthYearKey(transaction.date)))
    /\ showForm' = TRUE
    /\ lastSubmit' = <<>>
    /\ UNCHANGED <<transactions, annualizedIncomeFromTransactions, annualizedExpensesFromTransactions>>
    /\ BudgetingFrame

\* The form is submitted (line 518); the browser submits it only with its
\* required amount and date filled in (lines 536-537).  The effects of lines
\* 241-249 and 308-349 follow the new list.
handleSubmit ==
    /\ showForm
    /\ formState.amount # "" /\ formState.date # ""
    /\ IF formState.category = "" \/ formState.amount = "" \/ formState.date = ""
       THEN UNCHANGED <<transactions, formState, showForm, editingTransaction, expandedMonths>>
       ELSE /\ IF editingTransaction # null
               THEN /\ transactions' = EditedTransactions(transactions, editingTransaction[1].id, CompleteTransactionData(formState, editingTransaction[1].id))
                    /\ editingTransaction' = null
               ELSE /\ \E id \in FreshIds(transactions) :
                          transactions' = Append(transactions, CompleteTransactionData(formState, id))
                    /\ UNCHANGED editingTransaction
            /\ expandedMonths' = ExpandEffect(transactions', Expanded(expandedMonths, MonthYearKey(formState.date)))
            /\ formState' = initialFormState
            /\ showForm' = FALSE
    /\ annualizedIncomeFromTransactions' = Annualized(transactions', INCOME)
    /\ annualizedExpensesFromTransactions' = Annualized(transactions', EXPENSE)
    /\ lastSubmit' = Found(editingTransaction, transactions)
    /\ BudgetingFrame

\* The Delete button of a listed transaction (line 663), confirmed or not.
handleDeleteTransaction ==
    /\ \E k \in 1..Len(transactions) : \E confirmed \in BOOLEAN :
          transactions' = IF confirmed THEN FilteredTransactions(transactions, transactions[k].id) ELSE transactions
    /\ expandedMonths' = ExpandEffect(transactions', expandedMonths)
    /\ annualizedIncomeFromTransactions' = Annualized(transactions', INCOME)
    /\ annualizedExpensesFromTransactions' = Annualized(transactions', EXPENSE)
    /\ lastSubmit' = <<>>
    /\ UNCHANGED <<formState, showForm, editingTransaction>>
    /\ BudgetingFrame

BudgetingNext == AddTransactionClick \/ CancelClick \/ handleFormInputChange \/ handleEditTransaction \/ handleSubmit \/ handleDeleteTransaction

BudgetingSpec == BudgetingInit /\ [][BudgetingNext]_vars

----------------------------------------------------------------------------

(* BudgetingSection: the budget forecast (lines 352-402).                   *)

MaxForecastYears == 3     \* longest whole forecast period entered

\* What the number fields of the forecast form are given: the period may be
\* empty, negative, zero or fractional, the input sets no minimum and no step
\* for it.
ForecastFieldTexts(name) ==
    CASE name = "baselineSource" -> {"manual", "transactions"}
      [] name = "forecastYears" -> {"", "-1", "0", "2.5"} \cup {value \in {"1", "2", "3", "4", "5"} : Le(parseFloat(value), Num(MaxForecastYears))}
      [] name = "incomeGrowthRate" -> {"0", "50"}
      [] name = "expenseGrowthRate" -> {"0", "50"}

ForecastFields == {"baselineSource", "forecastYears", "incomeGrowthRate", "expenseGrowthRate"}

\* The forecast inputs an earlier session left in local storage.
StoredForecastInputs ==
    {[initialForecastInputs EXCEPT !.baselineSource = source, !.forecastYears = Num(MaxForecastYears), !.incomeGrowthRate = Num(50), !.expenseGrowthRate = Num(0)] :
        source \in {"manual", "transactions"}}

\* value === '' ? 0 : parseFloat(value); a number input holds no text that
\* parses to NaN.
ParsedValue(value) == IF value = "" THEN Zero ELSE parseFloat(value)

\* One pass of the loop of lines 384-398, for i.
ForecastYearOf(inputs, currentActualYear, i, income, expenses) ==
    [year |-> i + 1,
     actualYear |-> currentActualYear + i,
     projectedIncome |-> income,
     projectedExpenses |-> expenses,
     projectedNetBalance |-> Sub(income, expenses)]

\* (mutant) the income grows in the first year too
GrownIncome_FromFirst(inputs, i, currentIncome) == Mul(currentIncome, Add(Num(1), DivInt(inputs.incomeGrowthRate, 100)))

\* lines 385-388: the figures grow from the second year on
GrownIncome(inputs, i, currentIncome) ==
    IF i > 0 THEN Mul(currentIncome, Add(Num(1), DivInt(inputs.incomeGrowthRate, 100))) ELSE currentIncome

GrownExpenses(inputs, i, currentExpenses) ==
    IF i > 0 THEN Mul(currentExpenses, Add(Num(1), DivInt(inputs.expenseGrowthRate, 100))) ELSE currentExpenses

RECURSIVE ForecastLoop(_, _, _, _, _, _)
ForecastLoop(inputs, currentActualYear, i, currentIncome, currentExpenses, projections) ==
    IF ~Lt(Num(i), inputs.forecastYears) THEN projections
    ELSE LET income == GrownIncome(inputs, i, currentIncome)
             expenses == GrownExpenses(inputs, i, currentExpenses)
         IN  ForecastLoop(inputs, currentActualYear, i + 1, income, expenses,
                          Append(projections, ForecastYearOf(inputs, currentActualYear, i, income, expenses)))

\* Whether the annualized figures can be the baseline (line 369).
CanUseTransactions == annualizedIncomeFromTransactions # null /\ annualizedExpensesFromTransactions # null /\ Len(transactions) > 0

ForecastInit ==
    /\ clock \in ClockYears
    /\ call = NoCall
    /\ now = <<>>
    /\ result = <<>>
    /\ rerun = <<>>
    /\ sectionInputs = DEFAULT_SUPER_INPUTS
    /\ sectionPostRetirementInputs = DEFAULT_POST_RETIREMENT_INPUTS
    /\ sectionProjections = <<>>
    /\ sectionPostRetirementProjections = <<>>
    /\ mounted = FALSE
    /\ transactions \in StoredTransactionLists
    /\ formState = initialFormState
    /\ showForm = FALSE
    /\ editingTransaction = null
    /\ expandedMonths = ExpandEffect(transactions, <<>>)
    /\ forecastInputs \in StoredForecastInputs
    /\ projectedBudgetData = null
    /\ annualizedIncomeFromTransactions = Annualized(transactions, INCOME)
    /\ annualizedExpensesFromTransactions = Annualized(transactions, EXPENSE)
    /\ lastSubmit = <<>>

\* The radio button of the transactions baseline is disabled without
\* transactions (line 705).
handleForecastInputChange ==
    /\ \E name \in ForecastFields : \E value \in ForecastFieldTexts(name) :
          /\ (name = "baselineSource" /\ value = "transactions") => Len(transactions) > 0
          /\ forecastInputs' = IF name = "baselineSource"
                               THEN [forecastInputs EXCEPT !.baselineSource = value]
                               ELSE [forecastInputs EXCEPT ![name] = ParsedValue(value)]
    /\ UNCHANGED <<clock, call, now, result, rerun, sectionVars>>
    /\ UNCHANGED <<transactions, formState, showForm, editingTransaction, expandedMonths, projectedBudgetData, annualizedIncomeFromTransactions, annualizedExpensesFromTransactions, lastSubmit>>

handleGenerateForecast ==
    /\ projectedBudgetData' =
          IF forecastInputs.baselineSource = "transactions"
          THEN IF CanUseTransactions
               THEN <<ForecastLoop(forecastInputs, clock, 0, annualizedIncomeFromTransactions, annualizedExpensesFromTransactions, <<>>)>>
               ELSE null
          ELSE <<ForecastLoop(forecastInputs, clock, 0, forecastInputs.baselineAnnualIncome, forecastInputs.baselineAnnualExpenses, <<>>)>>
    /\ UNCHANGED <<clock, call, now, result, rerun, sectionVars>>
    /\ UNCHANGED <<transactions, formState, showForm, editingTransaction, expandedMonths, forecastInputs, annualizedIncomeFromTransactions, annualizedExpensesFromTransactions, lastSubmit>>

ForecastNext == handleForecastInputChange \/ handleGenerateForecast

ForecastSpec == ForecastInit /\ [][ForecastNext]_vars

----------------------------------------------------------------------------

(* What the claims speak about.                                             *)

IsAccumulation == call.fn = "projectSuperannuationBalance"
IsDrawdown == call.fn = "projectPostRetirement"

\* Every sequence the observed invocations returned.
Returned == {result} \cup {rerun[j].result : j \in 1..Len(rerun)}

Present(field) == field # undefined

----------------------------------------------------------------------------
(* C1: with integer ages projectSuperannuationBalance returns exactly       *)
(* max(0, retirementAge - currentAge) records and the k-th record (k from   *)
(* 0) has age currentAge + k.                                               *)
C1_CountAndAges ==
    IsAccumulation =>
        \A s \in Returned :
            /\ Len(s) = IF call.inputs.retirementAge > call.inputs.currentAge
                        THEN call.inputs.retirementAge - call.inputs.currentAge
                        ELSE 0
            /\ \A k \in 1..Len(s) : s[k].age = call.inputs.currentAge + (k - 1)

C1_Witness ==
    /\ IsAccumulation
    /\ Len(result) >= 2
    /\ result[Len(result)].age = call.inputs.retirementAge - 1

(* C2: every accumulation record has endingBalance = startingBalance +      *)
(* totalConcessional + voluntaryNonConcessional (as stored) +               *)
(* investmentReturns - taxOnEarnings.                                       *)
C2_BalanceIdentity ==
    IsAccumulation =>
        \A s \in Returned : \A k \in 1..Len(s) :
            s[k].endingBalance =
                Sub(Add(Add(Add(s[k].startingBalance, s[k].totalConcessional),
                            s[k].voluntaryNonConcessional),
                        s[k].investmentReturns),
                    s[k].taxOnEarnings)

C2_Witness ==
    /\ IsAccumulation
    /\ \E k \in 1..Len(result) :
          /\ Gt(result[k].taxOnEarnings, Zero)
          /\ Present(result[k].nonConcessionalCapExceededBy)
          /\ Gt(result[k].voluntaryNonConcessional, Zero)
          /\ Gt(result[k].totalConcessional, Zero)

(* C3: concessionalCapExceededBy is present iff sgContributions +           *)
(* voluntaryConcessionalContribution > CONCESSIONAL_CONTRIBUTION_CAP        *)
(* (strictly), and then equals totalConcessional - the cap.                 *)
C3_ConcessionalFlag ==
    IsAccumulation =>
        \A s \in Returned : \A k \in 1..Len(s) :
            /\ Present(s[k].concessionalCapExceededBy) <=>
                   Gt(Add(s[k].sgContributions,
                          call.inputs.voluntaryConcessionalContribution),
                      Num(CONCESSIONAL_CONTRIBUTION_CAP))
            /\ Present(s[k].concessionalCapExceededBy) =>
                   s[k].concessionalCapExceededBy =
                       Sub(s[k].totalConcessional, Num(CONCESSIONAL_CONTRIBUTION_CAP))

\* a year exactly at the cap (no flag) followed by a year over it
C3_Witness ==
    /\ IsAccumulation
    /\ Len(result) >= 2
    /\ result[1].totalConcessional = Num(CONCESSIONAL_CONTRIBUTION_CAP)
    /\ ~Present(result[1].concessionalCapExceededBy)
    /\ Present(result[2].concessionalCapExceededBy)

(* C4: in a year whose concessionalCapExceededBy is present the full        *)
(* uncapped SG + voluntary amount is still added to the balance before      *)
(* returns, and the projection still produces every later year.             *)
C4_BreachNotEnforced ==
    IsAccumulation =>
        \A s \in Returned : \A k \in 1..Len(s) :
            Present(s[k].concessionalCapExceededBy) =>
                LET full == Add(s[k].sgContributions,
                                call.inputs.voluntaryConcessionalContribution)
                    before == Add(Add(s[k].startingBalance, full),
                                  s[k].voluntaryNonConcessional)
                IN  /\ Gt(full, Num(CONCESSIONAL_CONTRIBUTION_CAP))
                    /\ s[k].investmentReturns =
                           Mul(before, DivInt(call.inputs.expectedReturnRate, 100))
                    /\ s[k].endingBalance =
                           Sub(Add(before, s[k].investmentReturns), s[k].taxOnEarnings)
                    /\ Len(s) = call.inputs.retirementAge - call.inputs.currentAge

\* a breach in a year that is not the last
C4_Witness ==
    /\ IsAccumulation
    /\ Len(result) >= 2
    /\ Present(result[1].concessionalCapExceededBy)
    /\ Gt(result[1].investmentReturns, Zero)

(* C5: nonConcessionalCapExceededBy is present iff the input                *)
(* voluntaryNonConcessionalContribution exceeds the year's effective cap    *)
(* (0 when startingBalance >= the TSB limit, else the standard cap), and    *)
(* then equals the voluntary amount minus the effective cap.                *)
C5_NonConcessionalFlag ==
    IsAccumulation =>
        \A s \in Returned : \A k \in 1..Len(s) :
            LET cap == IF Ge(s[k].startingBalance,
                             Num(TOTAL_SUPER_BALANCE_LIMIT_FOR_NON_CONCESSIONAL))
                       THEN Zero
                       ELSE Num(NON_CONCESSIONAL_CONTRIBUTION_CAP)
                vnc == call.inputs.voluntaryNonConcessionalContribution
            IN  /\ Present(s[k].nonConcessionalCapExceededBy) <=> Gt(vnc, cap)
                /\ Present(s[k].nonConcessionalCapExceededBy) =>
                       s[k].nonConcessionalCapExceededBy = Sub(vnc, cap)

\* a year under the limit with the standard cap, then a year starting at or
\* above the limit with cap 0
C5_Witness ==
    /\ IsAccumulation
    /\ Len(result) >= 2
    /\ call.inputs.voluntaryNonConcessionalContribution = Num(NON_CONCESSIONAL_CONTRIBUTION_CAP)
    /\ ~Present(result[1].nonConcessionalCapExceededBy)
    /\ result[2].nonConcessionalCapExceededBy = Num(NON_CONCESSIONAL_CONTRIBUTION_CAP)

\* The balance a drawdown record's year ends with, before the floor at zero.
Computed(r) == Sub(Add(r.startingBalance, r.investmentReturns), r.drawdown)

\* maxYears of the observed projectPostRetirement call
Horizon == IF call.maxYears = <<>> THEN 35 ELSE call.maxYears[1]

\* amount * f^n with f = 1 + ratePercent/100, multiplied by f one time after
\* the other, as the loops do (n >= 0); the n multiplications are made half
\* by half, which keeps the evaluation shallow, and zero stays zero
RECURSIVE Compounded(_, _, _)
Compounded(amount, ratePercent, n) ==
    IF n <= 0 \/ amount = Zero THEN amount
    ELSE IF n = 1 THEN Mul(amount, Add(Num(1), DivInt(ratePercent, 100)))
    ELSE LET half == Compounded(amount, ratePercent, n \div 2)
         IN  Compounded(half, ratePercent, n - (n \div 2))

\* The living expenses of the nth drawdown record (nth from 1).
LivingExpensesOf(nth) ==
    Compounded(call.postRetirementInputs.annualLivingExpenses,
               call.superInputs.inflationRate, nth - 1)

(* C6: no record of projectPostRetirement has a negative endingBalance,     *)
(* also for a negative starting balance or a return rate below -100%.       *)
C6_NeverNegative ==
    IsDrawdown =>
        \A s \in Returned : \A k \in 1..Len(s) : Ge(s[k].endingBalance, Zero)

\* a year that ends below zero is reported with balance 0
C6_Witness ==
    /\ IsDrawdown
    /\ \E k \in 1..Len(result) :
          /\ Lt(Computed(result[k]), Zero)
          /\ result[k].endingBalance = Zero

(* C7 as stated: at most maxYears records (35 when omitted); fewer than     *)
(* maxYears exactly when some year's computed ending balance is <= 0; that  *)
(* year's record is the last one.                                           *)
C7_Original ==
    IsDrawdown =>
        \A s \in Returned :
            /\ Len(s) <= Horizon
            /\ Len(s) < Horizon <=> \E k \in 1..Len(s) : Le(Computed(s[k]), Zero)
            /\ \A k \in 1..Len(s) : Le(Computed(s[k]), Zero) => k = Len(s)

(* C7 amended: for an integer maxYears >= 0, at most maxYears records;      *)
(* fewer than maxYears exactly when the computed ending balance of a year   *)
(* before the maxYears-th is <= 0; a year with computed ending balance      *)
(* <= 0 is always the last record.                                          *)
C7_Termination ==
    IsDrawdown =>
        \A s \in Returned :
            /\ Len(s) <= Horizon
            /\ Len(s) < Horizon <=>
                   \E k \in 1..Len(s) : k < Horizon /\ Le(Computed(s[k]), Zero)
            /\ \A k \in 1..Len(s) : Le(Computed(s[k]), Zero) => k = Len(s)

\* depletion in the second year of a longer horizon
C7_Witness ==
    /\ IsDrawdown
    /\ Len(result) = 2
    /\ Horizon > 2
    /\ Le(Computed(result[2]), Zero)
    /\ Gt(Computed(result[1]), Zero)

(* C8: shortfall is present iff the year's inflated living expenses are     *)
(* strictly greater than drawdown + otherIncome, and then equals the        *)
(* difference; totalIncome = drawdown + otherIncome.                        *)
C8_Shortfall ==
    IsDrawdown =>
        \A s \in Returned : \A k \in 1..Len(s) :
            LET income == Add(s[k].drawdown, s[k].otherIncome)
            IN  /\ Present(s[k].shortfall) <=> Gt(LivingExpensesOf(k), income)
                /\ Present(s[k].shortfall) =>
                       s[k].shortfall = Sub(LivingExpensesOf(k), income)
                /\ s[k].totalIncome = income
                /\ s[k].otherIncome = call.postRetirementInputs.otherInvestmentIncome

\* expenses met in the first year, inflated expenses not met in the second
C8_Witness ==
    /\ IsDrawdown
    /\ Len(result) >= 2
    /\ ~Present(result[1].shortfall)
    /\ Gt(result[1].drawdown, Zero)
    /\ Present(result[2].shortfall)
    /\ Gt(LivingExpensesOf(2), LivingExpensesOf(1))

(* C9: every drawdown record has endingBalance = max(0, startingBalance +   *)
(* investmentReturns - drawdown) with investmentReturns = startingBalance * *)
(* expectedReturnRate / 100, no earnings tax deducted.                      *)
C9_DrawdownIdentity ==
    IsDrawdown =>
        \A s \in Returned : \A k \in 1..Len(s) :
            /\ s[k].investmentReturns =
                   Mul(s[k].startingBalance,
                       DivInt(call.superInputs.expectedReturnRate, 100))
            /\ s[k].endingBalance =
                   MathMax(Zero, Sub(Add(s[k].startingBalance, s[k].investmentReturns),
                                     s[k].drawdown))

C9_Witness ==
    /\ IsDrawdown
    /\ \E k \in 1..Len(result) :
          /\ Gt(result[k].investmentReturns, Zero)
          /\ Gt(result[k].drawdown, Zero)
          /\ Gt(result[k].endingBalance, Zero)

\* A returned sequence with the year field blanked.
WithoutYear(s) == [k \in 1..Len(s) |-> [s[k] EXCEPT !.year = 0]]

\* currentAge of the observed call's inputs
CurrentAgeOfCall ==
    IF IsAccumulation THEN call.inputs.currentAge ELSE call.superInputs.currentAge

\* Every year field of s is the clock's year at that iteration plus the
\* years from currentAge to the record's age.
YearsFromClock(s, reading) ==
    \A k \in 1..Len(s) :
        s[k].year = getFullYear(reading, k - 1) + (s[k].age - CurrentAgeOfCall)

----------------------------------------------------------------------------
(* Claims about single fields of the records, under Spec.                   *)

\* The salary of the nth accumulation record (nth from 1).
SalaryOf(nth) ==
    Compounded(call.inputs.annualSalary, call.inputs.salaryGrowthRate, nth - 1)

(* C14: the k-th accumulation record (k from 0) has sgContributions =       *)
(* annualSalary * (1 + salaryGrowthRate/100)^k * SUPER_GUARANTEE_RATE, the  *)
(* first record using the input salary as it is, and voluntaryConcessional  *)
(* is the input voluntaryConcessionalContribution in every record.          *)
C14_SalaryGrowth ==
    IsAccumulation =>
        \A s \in Returned : \A k \in 1..Len(s) :
            /\ s[k].sgContributions = Mul(SalaryOf(k), SUPER_GUARANTEE_RATE)
            /\ s[k].voluntaryConcessional = call.inputs.voluntaryConcessionalContribution

\* a salary that grew between the first and the second record
C14_Witness ==
    /\ IsAccumulation
    /\ Len(result) >= 2
    /\ Gt(call.inputs.voluntaryConcessionalContribution, Zero)
    /\ result[1].sgContributions = Mul(call.inputs.annualSalary, SUPER_GUARANTEE_RATE)
    /\ Gt(result[2].sgContributions, result[1].sgContributions)

(* C15: in every accumulation record taxOnEarnings is investmentReturns *   *)
(* SUPER_EARNINGS_TAX_RATE when investmentReturns > 0 and 0 when            *)
(* investmentReturns <= 0; it is never negative.                            *)
C15_EarningsTax ==
    IsAccumulation =>
        \A s \in Returned : \A k \in 1..Len(s) :
            /\ Gt(s[k].investmentReturns, Zero) =>
                   s[k].taxOnEarnings = Mul(s[k].investmentReturns, SUPER_EARNINGS_TAX_RATE)
            /\ Le(s[k].investmentReturns, Zero) => s[k].taxOnEarnings = Zero
            /\ Ge(s[k].taxOnEarnings, Zero)

\* a year of loss, untaxed, after a year of gain, taxed
C15_Witness ==
    /\ IsAccumulation
    /\ \E k \in 1..Len(result) :
          /\ Lt(result[k].investmentReturns, Zero)
          /\ result[k].taxOnEarnings = Zero
    /\ \E k \in 1..Len(result) :
          /\ Gt(result[k].investmentReturns, Zero)
          /\ Gt(result[k].taxOnEarnings, Zero)

\* The non-concessional cap of a year that starts with the given balance.
EffectiveCapAt(startingBalance) ==
    IF Ge(startingBalance, Num(TOTAL_SUPER_BALANCE_LIMIT_FOR_NON_CONCESSIONAL))
    THEN Zero
    ELSE Num(NON_CONCESSIONAL_CONTRIBUTION_CAP)

(* C16: the voluntaryNonConcessional field of every accumulation record is  *)
(* min(input voluntaryNonConcessionalContribution, effective cap), the cap  *)
(* being 0 when the record's startingBalance is at or above the TSB limit   *)
(* and the standard cap otherwise, and this is the amount added to the      *)
(* balance besides the concessional contributions.                          *)
C16_NonConcessionalApplied ==
    IsAccumulation =>
        \A s \in Returned : \A k \in 1..Len(s) :
            /\ s[k].voluntaryNonConcessional =
                   MathMin(call.inputs.voluntaryNonConcessionalContribution,
                           EffectiveCapAt(s[k].startingBalance))
            /\ Sub(Add(Sub(s[k].endingBalance, s[k].investmentReturns), s[k].taxOnEarnings),
                   Add(s[k].startingBalance, s[k].totalConcessional))
                 = s[k].voluntaryNonConcessional

\* the balance passes the limit during a year that still gets the standard
\* cap; the next year gets none
C16_Witness ==
    /\ IsAccumulation
    /\ Len(result) >= 2
    /\ Lt(result[1].startingBalance, Num(TOTAL_SUPER_BALANCE_LIMIT_FOR_NON_CONCESSIONAL))
    /\ Gt(call.inputs.voluntaryNonConcessionalContribution, Num(NON_CONCESSIONAL_CONTRIBUTION_CAP))
    /\ result[1].voluntaryNonConcessional = Num(NON_CONCESSIONAL_CONTRIBUTION_CAP)
    /\ Ge(result[2].startingBalance, Num(TOTAL_SUPER_BALANCE_LIMIT_FOR_NON_CONCESSIONAL))
    /\ result[2].voluntaryNonConcessional = Zero

\* The balance the observed call was given to start from.
SuppliedBalance ==
    IF IsAccumulation THEN call.inputs.currentBalance ELSE call.startingRetirementBalance

(* C17: in the sequence either projector returns, the first record's        *)
(* startingBalance is the balance supplied and every later record's         *)
(* startingBalance is the endingBalance of the record before it.            *)
C17_Chain ==
    (IsAccumulation \/ IsDrawdown) =>
        \A s \in Returned :
            /\ Len(s) > 0 => s[1].startingBalance = SuppliedBalance
            /\ \A k \in 2..Len(s) : s[k].startingBalance = s[k - 1].endingBalance

\* accumulation years whose balance changes from one to the next
C17_Witness ==
    /\ IsAccumulation
    /\ Len(result) >= 2
    /\ result[1].startingBalance = call.inputs.currentBalance
    /\ result[2].startingBalance # result[1].startingBalance
    /\ result[2].startingBalance = result[1].endingBalance

\* The two-step rule: the need, floored at 0, capped by the balance after
\* returns, floored at 0.
TwoStepDrawdown(livingExpenses, otherInvestmentIncome, balanceAfterReturns) ==
    MathMax(Zero, MathMin(MathMax(Zero, Sub(livingExpenses, otherInvestmentIncome)),
                          balanceAfterReturns))

(* C18: the drawdown of every drawdown record is max(0, min(max(0,          *)
(* livingExpenses - otherInvestmentIncome), startingBalance +               *)
(* investmentReturns)) for the year's living expenses, and so 0 <= drawdown *)
(* <= max(0, startingBalance + investmentReturns).                          *)
C18_TwoStepRule ==
    IsDrawdown =>
        \A s \in Returned : \A k \in 1..Len(s) :
            /\ s[k].drawdown =
                   TwoStepDrawdown(LivingExpensesOf(k),
                                   call.postRetirementInputs.otherInvestmentIncome,
                                   Add(s[k].startingBalance, s[k].investmentReturns))
            /\ Ge(s[k].drawdown, Zero)
            /\ Le(s[k].drawdown,
                  MathMax(Zero, Add(s[k].startingBalance, s[k].investmentReturns)))

\* other income above the expenses while the fund has money: nothing drawn
C18_Witness ==
    /\ IsDrawdown
    /\ \E k \in 1..Len(result) :
          /\ Lt(LivingExpensesOf(k), call.postRetirementInputs.otherInvestmentIncome)
          /\ Gt(Add(result[k].startingBalance, result[k].investmentReturns), Zero)
          /\ result[k].drawdown = Zero

(* C19: the i-th drawdown record (i from 0) is computed from living         *)
(* expenses annualLivingExpenses * (1 + inflationRate/100)^i -- its         *)
(* drawdown is what is needed of them beyond the other income, up to the    *)
(* balance, and its shortfall is what of them the total income leaves       *)
(* uncovered -- and otherIncome is the input otherInvestmentIncome in every *)
(* record.                                                                  *)
C19_InflatedExpenses ==
    IsDrawdown =>
        \A s \in Returned : \A k \in 1..Len(s) :
            /\ s[k].otherIncome = call.postRetirementInputs.otherInvestmentIncome
            /\ s[k].totalIncome = Add(s[k].drawdown, call.postRetirementInputs.otherInvestmentIncome)
            /\ s[k].drawdown =
                   MathMax(Zero, MathMin(Sub(LivingExpensesOf(k), s[k].otherIncome),
                                         Add(s[k].startingBalance, s[k].investmentReturns)))
            /\ IF Gt(LivingExpensesOf(k), s[k].totalIncome)
               THEN s[k].shortfall = Sub(LivingExpensesOf(k), s[k].totalIncome)
               ELSE ~Present(s[k].shortfall)

\* the other income covers the uninflated expenses of the first year and
\* not the inflated ones of the second
C19_Witness ==
    /\ IsDrawdown
    /\ Len(result) >= 2
    /\ Gt(call.postRetirementInputs.otherInvestmentIncome, Zero)
    /\ result[1].drawdown = Zero
    /\ Gt(LivingExpensesOf(2), LivingExpensesOf(1))
    /\ Gt(result[2].drawdown, Zero)
    /\ result[2].drawdown = Sub(LivingExpensesOf(2), result[2].otherIncome)

----------------------------------------------------------------------------
(* Claims about SuperannuationSection, under SectionSpec.                   *)

\* A step of runForecast, from the mount effect or from the button.
RunForecastStep == MountEffect \/ UpdateForecastClick

(* C11: every drawdown record but the last has endingBalance > 0; the last  *)
(* has endingBalance <= 0 exactly when the balance computed for its year    *)
(* (startingBalance + investmentReturns - drawdown) is <= 0; and            *)
(* superDepletesAtAge is that record's age in this case and null when the   *)
(* last record's endingBalance is > 0.                                      *)
C11_DepletionSignal ==
    LET shown == sectionPostRetirementProjections
        n == Len(shown)
    IN  /\ \A k \in 1..(n - 1) : Gt(shown[k].endingBalance, Zero)
        /\ n > 0 => (Le(shown[n].endingBalance, Zero) <=> Le(Computed(shown[n]), Zero))
        /\ (n > 0 /\ Le(Computed(shown[n]), Zero)) => superDepletesAtAge = <<shown[n].age>>
        /\ (n > 0 /\ Gt(shown[n].endingBalance, Zero)) => superDepletesAtAge = null

\* the fund runs out in a later year of retirement
C11_Witness ==
    /\ Len(sectionPostRetirementProjections) >= 2
    /\ Le(Computed(sectionPostRetirementProjections[Len(sectionPostRetirementProjections)]), Zero)
    /\ superDepletesAtAge = <<sectionPostRetirementProjections[Len(sectionPostRetirementProjections)].age>>

(* C12: a runForecast whose accumulation projection is not empty leaves a   *)
(* drawdown sequence whose first record has startingBalance equal to the    *)
(* endingBalance of the last accumulation record and age equal to           *)
(* inputs.retirementAge, which is the last accumulation age plus one: the   *)
(* ages of the two sequences run on without gap or overlap.                 *)
C12_Handover ==
    [][ (RunForecastStep /\ Len(sectionProjections') > 0) =>
            /\ Len(sectionPostRetirementProjections') > 0
            /\ sectionPostRetirementProjections'[1].startingBalance =
                   sectionProjections'[Len(sectionProjections')].endingBalance
            /\ sectionPostRetirementProjections'[1].age = sectionInputs.retirementAge
            /\ sectionPostRetirementProjections'[1].age =
                   sectionProjections'[Len(sectionProjections')].age + 1
            /\ \A k \in 2..Len(sectionProjections') :
                   sectionProjections'[k].age = sectionProjections'[k - 1].age + 1
            /\ \A k \in 2..Len(sectionPostRetirementProjections') :
                   sectionPostRetirementProjections'[k].age =
                       sectionPostRetirementProjections'[k - 1].age + 1 ]_vars

\* both sequences have several records and the balance handed over grew
C12_Witness ==
    /\ Len(sectionProjections) >= 2
    /\ Len(sectionPostRetirementProjections) >= 2
    /\ sectionProjections[1].endingBalance # sectionProjections[Len(sectionProjections)].endingBalance
    /\ sectionPostRetirementProjections[1].startingBalance = sectionProjections[Len(sectionProjections)].endingBalance
    /\ sectionPostRetirementProjections[1].age = sectionInputs.retirementAge

\* Both sequences are what the projectors return for one snapshot of the
\* inputs (the year fields follow the clock).
FromSnapshot(snapshot, postSnapshot, pre, post) ==
    /\ WithoutYear(pre) = WithoutYear(projectSuperannuationBalance(snapshot, [year |-> 0, rolls |-> FALSE, at |-> 0]))
    /\ IF Len(pre) = 0
       THEN post = <<>>
       ELSE WithoutYear(post) =
                WithoutYear(projectPostRetirement(FinalBalance(pre), snapshot.retirementAge, snapshot, postSnapshot, undefined, [year |-> 0, rolls |-> FALSE, at |-> 0]))

(* C13: a step that changes an input field leaves projections and           *)
(* postRetirementProjections unchanged; a step that changes either sequence *)
(* is a runForecast (on mount or on a click of Update Forecast), leaves the *)
(* inputs unchanged and sets both sequences from that one snapshot.         *)
C13_OnDemand ==
    [][ /\ (sectionInputs' # sectionInputs \/ sectionPostRetirementInputs' # sectionPostRetirementInputs)
            => UNCHANGED <<sectionProjections, sectionPostRetirementProjections>>
        /\ (sectionProjections' # sectionProjections \/ sectionPostRetirementProjections' # sectionPostRetirementProjections)
            => /\ RunForecastStep
               /\ UNCHANGED <<sectionInputs, sectionPostRetirementInputs>>
               /\ FromSnapshot(sectionInputs, sectionPostRetirementInputs, sectionProjections', sectionPostRetirementProjections') ]_vars

\* the displayed sequences are stale: the inputs changed after the forecast
C13_Witness ==
    /\ mounted
    /\ Len(sectionProjections) > 0
    /\ ~FromSnapshot(sectionInputs, sectionPostRetirementInputs, sectionProjections, sectionPostRetirementProjections)

(* C20: a runForecast with retirementAge <= currentAge gets an empty        *)
(* sequence from the accumulation projector and sets                        *)
(* postRetirementProjections to empty too: nothing of a drawdown            *)
(* projection, which has at least one record, is stored.                    *)
C20_EmptyForecast ==
    [][ (RunForecastStep /\ sectionInputs.retirementAge <= sectionInputs.currentAge) =>
            /\ projectSuperannuationBalance(sectionInputs, [year |-> clock, rolls |-> FALSE, at |-> 0]) = <<>>
            /\ sectionProjections' = <<>>
            /\ sectionPostRetirementProjections' = <<>> ]_vars

\* a forecast was run for a retirement age at or below the current age
C20_Witness ==
    /\ mounted
    /\ sectionInputs.retirementAge <= sectionInputs.currentAge
    /\ FromSnapshot(sectionInputs, sectionPostRetirementInputs, sectionProjections, sectionPostRetirementProjections)
    /\ sectionProjections = <<>>
    /\ sectionPostRetirementProjections = <<>>

----------------------------------------------------------------------------
(* Claims about the course of a drawdown projection, under Spec.            *)

\* The balance after returns of the first year of the observed drawdown call.
FirstBalanceAfterReturns ==
    Add(call.startingRetirementBalance,
        Mul(call.startingRetirementBalance, DivInt(call.superInputs.expectedReturnRate, 100)))

\* Living expenses less other income, as supplied to the observed call.
FirstNeed ==
    Sub(call.postRetirementInputs.annualLivingExpenses,
        call.postRetirementInputs.otherInvestmentIncome)

(* C21 as stated: when the first year's balance after returns is less than  *)
(* living expenses minus other income, exactly one record is returned; its  *)
(* drawdown equals the whole balance after returns, its endingBalance is 0  *)
(* and its shortfall is the uncovered remainder.                            *)
C21_Original ==
    (IsDrawdown /\ Lt(FirstBalanceAfterReturns, FirstNeed)) =>
        \A s \in Returned :
            /\ Len(s) = 1
            /\ s[1].drawdown = FirstBalanceAfterReturns
            /\ s[1].endingBalance = Zero
            /\ s[1].shortfall = Sub(FirstNeed, s[1].drawdown)

(* C21 amended: when the first year's balance after returns is less than    *)
(* living expenses minus other income and maxYears >= 1, exactly one record *)
(* is returned; its drawdown is the balance after returns where that is     *)
(* positive and 0 where it is not, its endingBalance is 0 and its shortfall *)
(* is living expenses minus other income minus the drawdown where that is   *)
(* positive (always, when the balance after returns is not negative) and    *)
(* absent where it is not.  With maxYears = 0 no record is returned.        *)
C21_SingleRecord ==
    (IsDrawdown /\ Lt(FirstBalanceAfterReturns, FirstNeed)) =>
        \A s \in Returned :
            IF Horizon >= 1
            THEN /\ Len(s) = 1
                 /\ s[1].drawdown = MathMax(Zero, FirstBalanceAfterReturns)
                 /\ s[1].endingBalance = Zero
                 /\ IF Gt(Sub(FirstNeed, s[1].drawdown), Zero)
                    THEN s[1].shortfall = Sub(FirstNeed, s[1].drawdown)
                    ELSE ~Present(s[1].shortfall)
                 /\ Ge(FirstBalanceAfterReturns, Zero) =>
                        /\ s[1].drawdown = FirstBalanceAfterReturns
                        /\ Present(s[1].shortfall)
            ELSE Len(s) = 0

\* the example: 10000 to start from, expenses 60000, no other income, no
\* returns
C21_Witness ==
    /\ IsDrawdown
    /\ call.startingRetirementBalance = Num(10000)
    /\ FirstNeed = Num(60000)
    /\ call.superInputs.expectedReturnRate = Zero
    /\ Len(result) = 1
    /\ result[1].drawdown = Num(10000)
    /\ result[1].endingBalance = Zero
    /\ result[1].shortfall = Num(50000)

\* The other income covers the living expenses of every year of the horizon.
ExpensesAlwaysCovered ==
    \A k \in 1..Horizon :
        Le(LivingExpensesOf(k), call.postRetirementInputs.otherInvestmentIncome)

\* A positive balance stays positive under the return rate: 1 + rate/100 > 0.
ReturnsKeepBalancePositive ==
    Gt(Add(Num(1), DivInt(call.superInputs.expectedReturnRate, 100)), Zero)

(* C22: with a positive starting balance, a return rate that keeps the      *)
(* balance above zero and other income at or above the inflated living      *)
(* expenses in every year of the horizon, projectPostRetirement returns as  *)
(* many records as the horizon has years (35 with the default horizon),     *)
(* every record has drawdown 0 and no shortfall, and every year ends with   *)
(* the balance it started with plus the returns, which is above zero.       *)
C22_NeverDrawn ==
    (/\ IsDrawdown
     /\ Gt(call.startingRetirementBalance, Zero)
     /\ ReturnsKeepBalancePositive
     /\ ExpensesAlwaysCovered) =>
        \A s \in Returned :
            /\ Len(s) = Horizon
            /\ call.maxYears = <<>> => Len(s) = DEFAULT_MAX_YEARS
            /\ \A k \in 1..Len(s) :
                  /\ s[k].drawdown = Zero
                  /\ ~Present(s[k].shortfall)
                  /\ s[k].endingBalance = Add(s[k].startingBalance, s[k].investmentReturns)
                  /\ Gt(s[k].endingBalance, Zero)

\* the default horizon, expenses above zero and covered by the other income
C22_Witness ==
    /\ IsDrawdown
    /\ call.maxYears = <<>>
    /\ Gt(call.postRetirementInputs.annualLivingExpenses, Zero)
    /\ ExpensesAlwaysCovered
    /\ Len(result) = DEFAULT_MAX_YEARS
    /\ result[DEFAULT_MAX_YEARS].drawdown = Zero
    /\ Gt(result[DEFAULT_MAX_YEARS].endingBalance, Zero)

\* The balance after returns of the year of a drawdown record.
BalanceAfterReturnsOf(r) == Add(r.startingBalance, r.investmentReturns)

\* The living expenses and the other income supplied are not negative.
NonNegativeNeeds ==
    /\ Ge(call.postRetirementInputs.annualLivingExpenses, Zero)
    /\ Ge(call.postRetirementInputs.otherInvestmentIncome, Zero)

(* C25 as stated: with non-negative living expenses and other income a      *)
(* shortfall appears only in the final record and only with endingBalance   *)
(* 0; every record with a shortfall has drawn the entire balance after      *)
(* returns; at most one record has a shortfall and no record follows a      *)
(* year that ended at 0.                                                    *)
C25_Original ==
    (IsDrawdown /\ NonNegativeNeeds) =>
        \A s \in Returned :
            /\ \A k \in 1..Len(s) :
                  /\ Present(s[k].shortfall) =>
                        /\ k = Len(s)
                        /\ s[k].endingBalance = Zero
                        /\ s[k].drawdown = BalanceAfterReturnsOf(s[k])
                  /\ k < Len(s) => Gt(s[k].endingBalance, Zero)
            /\ Cardinality({k \in 1..Len(s) : Present(s[k].shortfall)}) <= 1

(* C25 amended: with non-negative living expenses and other income a        *)
(* shortfall appears only in the final record and only with endingBalance   *)
(* 0; a record with a shortfall has drawn all there is of the balance after *)
(* returns, which is that balance where it is positive and 0 where it is    *)
(* not; at most one record has a shortfall and no record follows a year     *)
(* that ended at 0.                                                         *)
C25_ShortfallIsFinal ==
    (IsDrawdown /\ NonNegativeNeeds) =>
        \A s \in Returned :
            /\ \A k \in 1..Len(s) :
                  /\ Present(s[k].shortfall) =>
                        /\ k = Len(s)
                        /\ s[k].endingBalance = Zero
                        /\ s[k].drawdown = MathMax(Zero, BalanceAfterReturnsOf(s[k]))
                  /\ k < Len(s) => Gt(s[k].endingBalance, Zero)
            /\ Cardinality({k \in 1..Len(s) : Present(s[k].shortfall)}) <= 1

\* years fully paid for, then a last year that takes what is left
C25_Witness ==
    /\ IsDrawdown
    /\ Len(result) >= 2
    /\ Horizon > Len(result)
    /\ ~Present(result[1].shortfall)
    /\ Gt(result[1].drawdown, Zero)
    /\ Present(result[Len(result)].shortfall)
    /\ Gt(result[Len(result)].drawdown, Zero)
    /\ result[Len(result)].drawdown = BalanceAfterReturnsOf(result[Len(result)])
    /\ result[Len(result)].endingBalance = Zero

\* The optional fields of the records of a returned sequence.
OptionalFieldsOf(s) ==
    IF IsAccumulation
    THEN {s[k].concessionalCapExceededBy : k \in 1..Len(s)}
         \cup {s[k].nonConcessionalCapExceededBy : k \in 1..Len(s)}
    ELSE {s[k].shortfall : k \in 1..Len(s)}

(* C26: an optional field (concessionalCapExceededBy,                       *)
(* nonConcessionalCapExceededBy, shortfall) that is present in a record is  *)
(* strictly greater than 0, so the truthiness test the tables make on it    *)
(* succeeds exactly when the field is present.                              *)
C26_PresentIsPositive ==
    (IsAccumulation \/ IsDrawdown) =>
        \A s \in Returned : \A field \in OptionalFieldsOf(s) :
            /\ Present(field) => Gt(field, Zero)
            /\ Truthy(field) <=> Present(field)

\* a record with both cap flags raised after a record with neither, the
\* non-concessional contribution being exactly the cap in the first
C26_Witness ==
    /\ IsAccumulation
    /\ Len(result) >= 2
    /\ call.inputs.voluntaryNonConcessionalContribution = Num(NON_CONCESSIONAL_CONTRIBUTION_CAP)
    /\ ~Present(result[1].nonConcessionalCapExceededBy)
    /\ ~Present(result[1].concessionalCapExceededBy)
    /\ Truthy(result[2].nonConcessionalCapExceededBy)
    /\ Truthy(result[2].concessionalCapExceededBy)

(* C27: for maxYears >= 1 projectPostRetirement returns at least one        *)
(* record, the first at age retirementAge, whatever the starting balance;   *)
(* with a starting balance of exactly 0 it returns exactly one record, with *)
(* investmentReturns 0, drawdown 0 and endingBalance 0, and with a          *)
(* shortfall of living expenses minus other income where that is positive   *)
(* and none where it is not.                                                *)
C27_FirstYearAlways ==
    (IsDrawdown /\ Horizon >= 1) =>
        \A s \in Returned :
            /\ Len(s) >= 1
            /\ s[1].age = call.retirementAge
            /\ call.startingRetirementBalance = Zero =>
                  /\ Len(s) = 1
                  /\ s[1].investmentReturns = Zero
                  /\ s[1].drawdown = Zero
                  /\ s[1].endingBalance = Zero
                  /\ IF Gt(FirstNeed, Zero)
                     THEN s[1].shortfall = FirstNeed
                     ELSE ~Present(s[1].shortfall)

\* nothing to start from, several years asked for, expenses not covered
C27_Witness ==
    /\ IsDrawdown
    /\ Horizon >= 2
    /\ call.startingRetirementBalance = Zero
    /\ Gt(FirstNeed, Zero)
    /\ Len(result) = 1
    /\ result[1].age = call.retirementAge
    /\ Present(result[1].shortfall)
    /\ result[1].shortfall = FirstNeed

----------------------------------------------------------------------------
(* Claims about the course of an accumulation projection, under Spec.       *)

\* The amounts supplied are not negative and neither rate is below -100%.
AccumulationInputsInRange ==
    /\ Ge(call.inputs.currentBalance, Zero)
    /\ Ge(call.inputs.annualSalary, Zero)
    /\ Ge(call.inputs.voluntaryConcessionalContribution, Zero)
    /\ Ge(call.inputs.voluntaryNonConcessionalContribution, Zero)
    /\ Ge(call.inputs.salaryGrowthRate, Num(-100))
    /\ Ge(call.inputs.expectedReturnRate, Num(-100))

(* C28: with non-negative currentBalance, annualSalary and voluntary        *)
(* contributions, salaryGrowthRate >= -100 and expectedReturnRate >= -100,  *)
(* every accumulation record has startingBalance >= 0 and endingBalance >=  *)
(* 0; if moreover expectedReturnRate >= 0, every record has endingBalance   *)
(* >= startingBalance.                                                      *)
C28_BalanceStaysNonNegative ==
    (IsAccumulation /\ AccumulationInputsInRange) =>
        \A s \in Returned : \A k \in 1..Len(s) :
            /\ Ge(s[k].startingBalance, Zero)
            /\ Ge(s[k].endingBalance, Zero)
            /\ Ge(call.inputs.expectedReturnRate, Zero) =>
                   Ge(s[k].endingBalance, s[k].startingBalance)

\* a year that loses everything, at a return rate of -100%, after
\* contributions were paid in
C28_Witness ==
    /\ IsAccumulation
    /\ AccumulationInputsInRange
    /\ Len(result) >= 2
    /\ call.inputs.expectedReturnRate = Num(-100)
    /\ Gt(result[1].totalConcessional, Zero)
    /\ Lt(result[1].investmentReturns, Zero)
    /\ result[1].endingBalance = Zero
    /\ result[2].startingBalance = Zero

----------------------------------------------------------------------------
(* The break at the top of the drawdown loop (line 139), under Spec.        *)

\* The loop's variables when the loop of the observed call, reading the
\* clock as given, is over.
LoopAtExit(reading) ==
    DrawLoop(call.retirementAge, call.superInputs, call.postRetirementInputs, call.maxYears, reading,
             MaxYearsOf(call.maxYears) + 1,
             [ i |-> 0,
               currentBalance |-> call.startingRetirementBalance,
               currentAnnualLivingExpenses |-> call.postRetirementInputs.annualLivingExpenses,
               projections |-> <<>>,
               left |-> FALSE ])

\* The loop was left by the break of line 139: the condition of the for
\* holds and the carried balance is <= 0 in a year after the first.
LeftAtTop(loop) ==
    /\ DrawLoopCondition(loop.i, call.maxYears)
    /\ DepletedBefore(loop.currentBalance, loop.i)

\* One pass of the loop with line 139 removed.
UncheckedLoopBody(retirementAge, superInputs, postRetirementInputs, maxYears, reading, loop) ==
    IF loop.left \/ ~DrawLoopCondition(loop.i, maxYears)
    THEN [loop EXCEPT !.left = TRUE]
    ELSE
      LET age == retirementAge + loop.i
          year == DrawYearField(getFullYear(reading, loop.i), age, superInputs)
          p == PostRetirementYearProjection(superInputs, postRetirementInputs, year, age,
                                            loop.currentBalance, loop.currentAnnualLivingExpenses)
          endingBalance == DrawEndingBalance(loop.currentBalance, p.investmentReturns, p.drawdown)
      IN  IF DepletedAfter(endingBalance)
          THEN [loop EXCEPT !.projections = Append(loop.projections, p), !.left = TRUE]
          ELSE [ i |-> loop.i + 1,
                 currentBalance |-> endingBalance,
                 currentAnnualLivingExpenses |->
                     NextLivingExpenses(loop.currentAnnualLivingExpenses, superInputs),
                 projections |-> Append(loop.projections, p),
                 left |-> FALSE ]

\* The loop with line 139 removed, as `tests` tests of its condition.
RECURSIVE UncheckedLoop(_, _, _, _, _, _, _)
UncheckedLoop(retirementAge, superInputs, postRetirementInputs, maxYears, reading, tests, loop) ==
    IF tests <= 0 \/ loop.left
    THEN loop
    ELSE IF tests = 1
    THEN UncheckedLoopBody(retirementAge, superInputs, postRetirementInputs, maxYears, reading, loop)
    ELSE LET half == UncheckedLoop(retirementAge, superInputs, postRetirementInputs, maxYears, reading,
                                   tests \div 2, loop)
         IN  IF half.left
             THEN half
             ELSE UncheckedLoop(retirementAge, superInputs, postRetirementInputs, maxYears, reading,
                                tests - (tests \div 2), half)

\* What the observed call returns with line 139 removed.
WithoutTopCheck(reading) ==
    UncheckedLoop(call.retirementAge, call.superInputs, call.postRetirementInputs, call.maxYears, reading,
                  MaxYearsOf(call.maxYears) + 1,
                  [ i |-> 0,
                    currentBalance |-> call.startingRetirementBalance,
                    currentAnnualLivingExpenses |-> call.postRetirementInputs.annualLivingExpenses,
                    projections |-> <<>>,
                    left |-> FALSE ]).projections

\* The observed invocations: what each read from the clock and returned.
Observed == {[now |-> now, result |-> result]} \cup {rerun[j] : j \in 1..Len(rerun)}

(* C30: the break at the top of the loop of projectPostRetirement is never  *)
(* taken: every year after the first starts from a balance above zero, the  *)
(* loop is left by the break after the push or by its condition, and the    *)
(* function with the check removed returns the same sequence.               *)
C30_TopCheckIsDead ==
    IsDrawdown =>
        \A o \in Observed :
            /\ \A k \in 2..Len(o.result) : Gt(o.result[k].startingBalance, Zero)
            /\ ~LeftAtTop(LoopAtExit(o.now))
            /\ LoopAtExit(o.now).projections = o.result
            /\ WithoutTopCheck(o.now) = o.result

\* the fund runs dry in a year after the first, before the horizon
C30_Witness ==
    /\ IsDrawdown
    /\ Len(result) >= 2
    /\ Len(result) < Horizon
    /\ Le(Computed(result[Len(result)]), Zero)
    /\ LoopAtExit(now).left
    /\ WithoutTopCheck(now) = result

----------------------------------------------------------------------------
(* The calendar years of a forecast, under SectionSpec.                     *)

\* The year fields of the accumulation records followed by those of the
\* drawdown records.
YearsOf(pre, post) ==
    [k \in 1..(Len(pre) + Len(post)) |->
        IF k <= Len(pre) THEN pre[k].year ELSE post[k - Len(pre)].year]

\* The years run on by exactly 1 per record, within each sequence and from
\* the last accumulation record to the first drawdown record.
LinedUp(pre, post) ==
    \A k \in 2..(Len(pre) + Len(post)) : YearsOf(pre, post)[k] = YearsOf(pre, post)[k - 1] + 1

(* C23: within each displayed sequence the year increases by exactly 1 per  *)
(* record, and the first drawdown record's year is the last accumulation    *)
(* record's year + 1.  Both loops read the clock once per record (lines 69  *)
(* and 141), so a forecast during which the calendar year changes steps by  *)
(* 2 at the first record computed in the new year.                          *)
C23_YearsLineUp ==
    LinedUp(sectionProjections, sectionPostRetirementProjections)

----------------------------------------------------------------------------
(* Claims about the budget forecast, under ForecastSpec.                    *)

ManualBaseline == forecastInputs.baselineSource # "transactions"

\* The records follow the baseline of the inputs: numbered from 1, the first
\* with the baseline figures, each later one with the figures of the one
\* before grown by the two rates, each with income less expenses as its net
\* balance.
FollowsBaseline(inputs, records) ==
    /\ \A k \in 1..Len(records) :
          /\ records[k].year = k
          /\ records[k].projectedNetBalance = Sub(records[k].projectedIncome, records[k].projectedExpenses)
    /\ Len(records) >= 1 =>
          /\ records[1].projectedIncome = inputs.baselineAnnualIncome
          /\ records[1].projectedExpenses = inputs.baselineAnnualExpenses
    /\ \A k \in 2..Len(records) :
          /\ records[k].projectedIncome = Mul(records[k - 1].projectedIncome, Add(Num(1), DivInt(inputs.incomeGrowthRate, 100)))
          /\ records[k].projectedExpenses = Mul(records[k - 1].projectedExpenses, Add(Num(1), DivInt(inputs.expenseGrowthRate, 100)))

\* The number of whole numbers from 0 that lie below the period: the period
\* rounded up, and 0 for a period that is not positive.
WholeYearsBelow(period) == Cardinality({i \in 0..(MaxForecastYears + 1) : Lt(Num(i), period)})

(* C24 as stated: handleGenerateForecast with a manual baseline produces    *)
(* exactly forecastYears records numbered 1..forecastYears, the first with  *)
(* the baseline, each later one grown from the one before, each with net    *)
(* balance income - expenses.  Fails for a period of -1 or of 2.5 years.    *)
C24_Original ==
    [][(handleGenerateForecast /\ ManualBaseline) =>
          /\ Num(Len(projectedBudgetData'[1])) = forecastInputs.forecastYears
          /\ FollowsBaseline(forecastInputs, projectedBudgetData'[1])]_vars

(* C24, amended: handleGenerateForecast with a manual baseline produces one *)
(* record for every whole number from 0 that lies below forecastYears, that *)
(* is forecastYears rounded up and none when it is not positive (exactly    *)
(* forecastYears when that is a whole number from 0 up), numbered from 1;   *)
(* record 1 carries the baseline income and expenses unchanged, each later  *)
(* record multiplies the previous record's income by                        *)
(* (1 + incomeGrowthRate/100) and expenses by (1 + expenseGrowthRate/100),  *)
(* and every record has projectedNetBalance = projectedIncome -             *)
(* projectedExpenses.                                                       *)
C24_RecordPerStartedYear ==
    [][(handleGenerateForecast /\ ManualBaseline) =>
          /\ Len(projectedBudgetData'[1]) = WholeYearsBelow(forecastInputs.forecastYears)
          /\ FollowsBaseline(forecastInputs, projectedBudgetData'[1])]_vars

\* A forecast over two and a half years at 50% income growth is displayed:
\* three records, the third with the baseline income grown twice.
C24_Witness ==
    /\ ManualBaseline
    /\ forecastInputs.forecastYears = Norm(5, 2)
    /\ forecastInputs.incomeGrowthRate = Num(50)
    /\ projectedBudgetData # null
    /\ Len(projectedBudgetData[1]) = 3
    /\ projectedBudgetData[1][1].projectedIncome = forecastInputs.baselineAnnualIncome
    /\ projectedBudgetData[1][3].projectedIncome = Mul(forecastInputs.baselineAnnualIncome, Norm(9, 4))

----------------------------------------------------------------------------
(* Claims about the transaction form, under BudgetingSpec.                  *)

\* The submit that just ran found the form in edit mode.
SubmittedEdit == lastSubmit # <<>> /\ lastSubmit[1].editing # null

(* C29: submitting the transaction form in edit mode never changes the      *)
(* number, the order or the ids of the stored transactions; it replaces     *)
(* only the entries whose id is the edited transaction's; and if that       *)
(* transaction was deleted while the form was open the list stays as it     *)
(* was, the deleted transaction is not created again, while the form is     *)
(* closed and the edit state cleared all the same.                          *)
C29_EditKeepsTheList ==
    SubmittedEdit =>
        LET before == lastSubmit[1].before
            id == lastSubmit[1].editing[1].id
        IN  /\ Len(transactions) = Len(before)
            /\ \A k \in 1..Len(before) :
                  /\ transactions[k].id = before[k].id
                  /\ before[k].id # id => transactions[k] = before[k]
            /\ (\A k \in 1..Len(before) : before[k].id # id) => transactions = before
            /\ ~showForm
            /\ editingTransaction = null

\* An edit was submitted for a transaction deleted while its form was open,
\* with changed figures and another transaction still listed.
C29_Witness ==
    /\ SubmittedEdit
    /\ Len(lastSubmit[1].before) >= 1
    /\ \A k \in 1..Len(lastSubmit[1].before) : lastSubmit[1].before[k].id # lastSubmit[1].editing[1].id
    /\ transactions = lastSubmit[1].before
    /\ ~showForm

=============================================================================
